---- MODULE Spec2Model ----
(***************************************************************************)
(* A model of funcbuilder/py_dot.py: Environments with django-like path    *)
(* names (real_attribute), Function objects built by chained calls         *)
(* (set / ret / if_ / elif_ / else_ / for_ / end), and the dispatcher of   *)
(* Function.__call__ that draws Code objects from a CodeIter.              *)
(*                                                                         *)
(* Python values are tagged records, one field each, so that values of     *)
(* different types are never compared field by field.  Names are sequences *)
(* of one-character strings, because real_attribute splits them with a     *)
(* regular expression.                                                     *)
(***************************************************************************)
EXTENDS Integers, Sequences, FiniteSets, TLC

VARIABLES
    store,      \* the heap: every Environment, Class, object and class value
    kwname,     \* SpecAttr: the keyword name being spelled
    ret,        \* the last call made on an Environment or Function, and what it gave
    nsets,      \* SpecEnv: the Environment.set calls made so far
    script,     \* the builder calls still to be made, in order
    cur,        \* the object the last builder call returned
    func,       \* the Function under definition, then called (0: none yet)
    ncode,      \* the number of Code objects created so far
    pc,         \* "define", "run" (a call is dispatching) or "done"
    call,       \* the call in progress: its Environment, stack and CodeIter
    outcome,    \* how the call ended: a value returned or an exception
    trace,      \* the Code objects dispatched by the call, in order
    prog,       \* the builder calls of the program, as written
    pep479      \* whether a StopIteration inside a generator is a RuntimeError

\* Longest keyword name spelled in SpecAttr.
MaxName == 8
\* Environment.set calls made in SpecEnv.
MaxSets == 2
\* SpecEnv: the objects on the heap
MaxHeap == 4
\* Longest list passed as an argument to a Function.
MaxLen == 2

(***************************************************************************)
(* Values                                                                  *)
(***************************************************************************)
IntV(n) == [int |-> n]
ListV(s) == [list |-> s]
Ref(i) == [ref |-> i]
NoneV == [none |-> TRUE]
udef == [udef |-> TRUE]

\* A str, as the sequence of its characters
StrV(s) == [str |-> s]

\* An iterable object whose iterator gives the elements of items and then
\* raises exception x instead of ending (it has no length and no operators).
FailV(items, x) == [items |-> items, fail |-> x]

IsInt(v) == DOMAIN v = {"int"}
IsList(v) == DOMAIN v = {"list"}
IsStr(v) == DOMAIN v = {"str"}
IsFailing(v) == DOMAIN v = {"items", "fail"}
IsRef(v) == DOMAIN v = {"ref"}
IsNone(v) == DOMAIN v = {"none"}
IsBool(v) == DOMAIN v = {"bool"}
BoolV(b) == [bool |-> b]

\* bool is a subclass of int
IsNum(v) == IsInt(v) \/ IsBool(v)
Num(v) == IF IsInt(v) THEN v.int ELSE IF v.bool THEN 1 ELSE 0

\* Python's truth value of v
Truthy(v) ==
    IF IsNum(v) THEN Num(v) # 0
    ELSE IF IsList(v) THEN v.list # <<>>
    ELSE IF IsStr(v) THEN v.str # <<>>
    ELSE ~IsNone(v)

\* The values that have a length: lists and strings.
IsSized(v) == IsList(v) \/ IsStr(v)

\* The values iter() accepts.
IsIterable(v) == IsSized(v) \/ IsFailing(v)

\* What iter(v) gives, in order: the elements of a list, the characters of
\* a string as strings of length one.
Items(v) ==
    IF IsList(v) THEN v.list
    ELSE IF IsFailing(v) THEN v.items
    ELSE [i \in 1..Len(v.str) |-> StrV(<<v.str[i]>>)]

\* What next() of the iterator raises after the last element: "" stands
\* for StopIteration.
RaisesAtEnd(v) == IF IsFailing(v) THEN v.fail ELSE ""

\* The outcome of evaluating something: a value, or the exception raised.
Ok(v) == [exc |-> "", val |-> v]
Raise(x) == [exc |-> x, val |-> NoneV]

(***************************************************************************)
(* Names and dictionaries                                                  *)
(***************************************************************************)
SELF == <<"s", "e", "l", "f">>
DOLLAR == <<"$">>
MapSelf(n) == IF n = SELF THEN DOLLAR ELSE n
PARENT == <<"_", "_", "p", "a", "r", "e", "n", "t", "_", "_">>
LAST == <<"l", "a", "s", "t">>
DD == <<"d">>
NAME == <<"n", "a", "m", "e">>
BASES == <<"b", "a", "s", "e", "s">>
PARENTATTR == <<"p", "a", "r", "e", "n", "t">>

EmptyDict == [k \in {} |-> NoneV]
Put(dic, k, v) == [n \in DOMAIN dic \cup {k} |-> IF n = k THEN v ELSE dic[n]]

(***************************************************************************)
(* re.findall(r'\w+?(?=__|$)', attr)                                       *)
(***************************************************************************)
IsWord(c) == c # "$"

\* The lookahead (?=__|$) after the first e characters.
Lookahead(attr, e) ==
    \/ e = Len(attr)
    \/ e + 2 <= Len(attr) /\ attr[e + 1] = "_" /\ attr[e + 2] = "_"

\* The lazy \w+? from position s: the end of the shortest match, 0 if none.
RECURSIVE MatchEnd(_, _)
MatchEnd(attr, e) ==
    IF e > Len(attr) \/ ~IsWord(attr[e]) THEN 0
    ELSE IF Lookahead(attr, e) THEN e
    ELSE MatchEnd(attr, e + 1)

RECURSIVE FindAllFrom(_, _)

\* The scan at position s, where the lazy match ends at e.
FindAllAt(attr, s, e) ==
    IF e = 0 THEN FindAllFrom(attr, s + 1)
    ELSE <<SubSeq(attr, s, e)>> \o FindAllFrom(attr, e + 1)

FindAllFrom(attr, s) ==
    IF s > Len(attr) THEN <<>> ELSE FindAllAt(attr, s, MatchEnd(attr, s))

findall(attr) == FindAllFrom(attr, 1)

StartsDunder(x) == Len(x) >= 2 /\ x[1] = "_" /\ x[2] = "_"

\* re.sub(r'^__', '', x)
StripDunder(x) == IF StartsDunder(x) THEN SubSeq(x, 3, Len(x)) ELSE x

\* The loop of real_attribute that joins "_" segments to the one after them:
\* "a___b" is ['a', '_', '__b'] and gives "a._b".  ok = FALSE when next(it)
\* runs off the end of the names (StopIteration).
RECURSIVE JoinUnder(_, _, _)
JoinUnder(names, i, name) ==
    \* x = names[i] is known to be "_": x = next(it); name += sub(x)
    IF i + 1 > Len(names) THEN [ok |-> FALSE, name |-> name, next |-> i + 1]
    ELSE LET x == names[i + 1]
             nm == name \o StripDunder(x)
         IN  IF x = <<"_">> THEN JoinUnder(names, i + 1, nm)
             ELSE [ok |-> TRUE, name |-> nm, next |-> i + 2]

RECURSIVE FixNames(_, _)

\* fixed_names.append(name)
FixNamesAppend(name, rest) == [ok |-> rest.ok, names |-> <<name>> \o rest.names]

\* j is the name made of names[i] and the segments joined to it.
FixNamesJoined(names, j) ==
    IF ~j.ok THEN [ok |-> FALSE, names |-> <<>>]
    ELSE FixNamesAppend(j.name, FixNames(names, j.next))

FixNames(names, i) ==
    IF i > Len(names) THEN [ok |-> TRUE, names |-> <<>>]
    ELSE FixNamesJoined(names,
            IF names[i] = <<"_">> THEN JoinUnder(names, i, StripDunder(names[i]))
            ELSE [ok |-> TRUE, name |-> StripDunder(names[i]), next |-> i + 1])

\* attr == '$' or (names[0].startswith('__') and names[-1] == '__') or len(names) == 1
IsLiteralKey(attr, names) ==
    \/ attr = DOLLAR
    \/ StartsDunder(names[1]) /\ names[Len(names)] = <<"_", "_">>
    \/ Len(names) = 1

(***************************************************************************)
(* Objects.  The heap is a sequence of records; a Ref value holds an index *)
(* into it.  An Environment keeps its dictionary in d and its other        *)
(* instance attributes (last, and for a Class name, bases, parent) in      *)
(* attrs; a plain object keeps all its attributes in attrs.                *)
(***************************************************************************)
NewObject(attrs) == [kind |-> "object", attrs |-> attrs]

\* Environment.__init__
NewEnvironment(dic) ==
    [kind |-> "Environment", d |-> dic, attrs |-> [k \in {LAST} |-> udef]]

IsEnvKind(o) == o.kind \in {"Environment", "Class"}

\* What the class Environment itself defines: found by Python's attribute
\* lookup before __getattr__ is asked.
EnvironmentMethods ==
    { <<"s", "e", "t">>, <<"d", "e", "f", "_">>, <<"c", "l", "a", "s", "s", "_">>,
      <<"p", "r", "i", "n", "t">> }

ClassMethods == EnvironmentMethods \cup { <<"e", "n", "d">> }

Alloc(st, o) == Append(st, o)

RECURSIVE getattr(_, _, _)
RECURSIVE GetChain(_, _, _, _)
RECURSIVE real_attribute(_, _, _, _, _)
RECURSIVE Environment__getattr__(_, _, _)

\* obj_to_handle = getattr(obj_to_handle, name) for each getter; r is what
\* getter i gave
GetChainNext(st, r, getters, i) ==
    IF r.exc # "" THEN r ELSE GetChain(st, r.val, getters, i + 1)

GetChain(st, v, getters, i) ==
    IF i > Len(getters) THEN Ok(v)
    ELSE GetChainNext(st, getattr(st, v, getters[i]), getters, i)

\* setattr(obj, name, value): the heap after it
setattr(st, v, name, value) ==
    IF IsRef(v) /\ "attrs" \in DOMAIN st[v.ref]
    THEN [exc |-> "", st |-> [st EXCEPT ![v.ref].attrs = Put(@, name, value)]]
    ELSE [exc |-> "AttributeError", st |-> st]

\* What real_attribute gives: the exception or the value, the dictionary
\* and the heap after it.
AttrRaise(st, dic, x) == [exc |-> x, val |-> NoneV, dic |-> dic, st |-> st]
AttrSet(dic, w) == [exc |-> w.exc, val |-> NoneV, dic |-> dic, st |-> w.st]
AttrGot(st, dic, r) == [exc |-> r.exc, val |-> r.val, dic |-> dic, st |-> st]

\* The end of real_attribute: setattr or getattr of the last name on the
\* object the getters led to.
real_attribute_last(st, dic, target, setter, value, do_set) ==
    IF target.exc # "" THEN AttrRaise(st, dic, target.exc)
    ELSE IF do_set THEN AttrSet(dic, setattr(st, target.val, setter, value))
    ELSE AttrGot(st, dic, getattr(st, target.val, setter))

\* A path: obj is its first name, fixed the names after it.
real_attribute_path(st, dic, obj, fixed, value, do_set) ==
    IF obj \notin DOMAIN dic THEN AttrRaise(st, dic, "KeyError")
    ELSE IF ~fixed.ok THEN AttrRaise(st, dic, "StopIteration")
    ELSE real_attribute_last(st, dic,
            GetChain(st, dic[obj], SubSeq(fixed.names, 1, Len(fixed.names) - 1), 1),
            fixed.names[Len(fixed.names)], value, do_set)

\* attr after the renaming of self, names what findall makes of it
real_attribute_names(st, dic, attr, names, value, do_set) ==
    IF attr # DOLLAR /\ names = <<>> THEN AttrRaise(st, dic, "IndexError")
    ELSE IF IsLiteralKey(attr, names)
    THEN IF do_set
         THEN [exc |-> "", val |-> NoneV, dic |-> Put(dic, attr, value), st |-> st]
         ELSE IF attr \in DOMAIN dic
              THEN [exc |-> "", val |-> dic[attr], dic |-> dic, st |-> st]
              ELSE AttrRaise(st, dic, "KeyError")
    ELSE real_attribute_path(st, dic, MapSelf(names[1]), FixNames(Tail(names), 1),
                             value, do_set)

real_attribute(st, dic, attr0, value, do_set) ==
    real_attribute_names(st, dic, MapSelf(attr0), findall(MapSelf(attr0)),
                         value, do_set)

\* The except KeyError of __getattr__: the parent scope, or AttributeError
Environment__getattr__parent(st, id, name, r) ==
    IF r.exc = "KeyError"
    THEN IF PARENT \in DOMAIN st[id].d /\ ~IsNone(st[id].d[PARENT])
         THEN getattr(st, st[id].d[PARENT], name)
         ELSE Raise("AttributeError")
    ELSE [exc |-> r.exc, val |-> r.val]

\* Environment.__getattr__(self, name), self being heap object id
Environment__getattr__(st, id, name) ==
    Environment__getattr__parent(st, id, name,
        real_attribute(st, st[id].d, name, NoneV, FALSE))

\* Python's getattr(v, name): the instance's attributes and what its class
\* defines come first; __getattr__ is the fallback.
getattr(st, v, name) ==
    IF ~IsRef(v) THEN Raise("AttributeError")
    ELSE IF st[v.ref].kind = "object"
    THEN IF name \in DOMAIN st[v.ref].attrs THEN Ok(st[v.ref].attrs[name])
         ELSE Raise("AttributeError")
    ELSE IF IsEnvKind(st[v.ref])
    THEN IF name = DD THEN Ok([dictof |-> v.ref])
         ELSE IF name \in DOMAIN st[v.ref].attrs THEN Ok(st[v.ref].attrs[name])
         ELSE IF name \in (IF st[v.ref].kind = "Class" THEN ClassMethods
                           ELSE EnvironmentMethods)
         THEN Ok([method |-> name, self |-> v.ref])
         ELSE Environment__getattr__(st, v.ref, name)
    ELSE Raise("AttributeError")

\* Environment.set: kw is the sequence of <<key, value>> in keyword order.
\* An exception leaves the earlier keys set.
RECURSIVE EnvironmentSet(_, _, _, _)

\* r is what real_attribute did with keyword i
EnvironmentSetNext(st, id, kw, i, r) ==
    IF r.exc # "" THEN [exc |-> r.exc, st |-> st]
    ELSE EnvironmentSet([r.st EXCEPT ![id].d = r.dic], id, kw, i + 1)

EnvironmentSet(st, id, kw, i) ==
    IF i > Len(kw) THEN [exc |-> "", st |-> st]
    ELSE EnvironmentSetNext(st, id, kw, i,
            real_attribute(st, st[id].d, kw[i][1], kw[i][2], TRUE))

(***************************************************************************)
(* Deferred expressions: what the var object of funcbuilder builds.  A     *)
(* FuncBuilder is a record with the field fb; its operands are             *)
(* FuncBuilders or plain values.                                           *)
(***************************************************************************)
IsFuncBuilder(x) == "fb" \in DOMAIN x

Var(n) == [fb |-> "attr", name |-> n]
Bin(op, l, r) == [fb |-> op, l |-> l, r |-> r]

RECURSIVE Repeat(_, _)
Repeat(s, n) == IF n <= 0 THEN <<>> ELSE s \o Repeat(s, n - 1)

RECURSIVE Power(_, _)
Power(b, n) == IF n <= 0 THEN 1 ELSE b * Power(b, n - 1)

\* The operator functions of the operator module, on two values.  An
\* operand that is itself a FuncBuilder (a deferred expression bound in the
\* Environment) answers through its own operator methods with a new
\* FuncBuilder.
Operate(op, a, b) ==
    IF IsFuncBuilder(a) \/ IsFuncBuilder(b) THEN Ok(Bin(op, a, b))
    ELSE IF op = "add"
    THEN IF IsNum(a) /\ IsNum(b) THEN Ok(IntV(Num(a) + Num(b)))
         ELSE IF IsList(a) /\ IsList(b) THEN Ok(ListV(a.list \o b.list))
         ELSE IF IsStr(a) /\ IsStr(b) THEN Ok(StrV(a.str \o b.str))
         ELSE Raise("TypeError")
    ELSE IF op = "mul"
    THEN IF IsNum(a) /\ IsNum(b) THEN Ok(IntV(Num(a) * Num(b)))
         ELSE IF IsList(a) /\ IsNum(b) THEN Ok(ListV(Repeat(a.list, Num(b))))
         ELSE IF IsNum(a) /\ IsList(b) THEN Ok(ListV(Repeat(b.list, Num(a))))
         ELSE IF IsStr(a) /\ IsNum(b) THEN Ok(StrV(Repeat(a.str, Num(b))))
         ELSE IF IsNum(a) /\ IsStr(b) THEN Ok(StrV(Repeat(b.str, Num(a))))
         ELSE Raise("TypeError")
    ELSE IF op = "pow"
    THEN IF IsNum(a) /\ IsNum(b) /\ Num(b) >= 0 THEN Ok(IntV(Power(Num(a), Num(b))))
         ELSE Raise("TypeError")
    ELSE IF op = "gt"
    THEN IF IsNum(a) /\ IsNum(b) THEN Ok(BoolV(Num(a) > Num(b)))
         ELSE Raise("TypeError")
    ELSE IF op = "eq"
    THEN IF IsNum(a) /\ IsNum(b) THEN Ok(BoolV(Num(a) = Num(b)))
         ELSE Ok(BoolV(a = b))
    ELSE Raise("TypeError")

\* FuncBuilder.do(environ): the expression applied to the environment.
RECURSIVE do(_, _, _)

\* a and b are what the operands gave.
doOperate(op, a, b) == IF b.exc # "" THEN b ELSE Operate(op, a.val, b.val)

doRight(st, x, environ, a) ==
    IF a.exc # "" THEN a ELSE doOperate(x.fb, a, do(st, x.r, environ))

do(st, x, environ) ==
    IF ~IsFuncBuilder(x) THEN Ok(x)
    ELSE IF x.fb = "attr" THEN getattr(st, environ, x.name)
    ELSE doRight(st, x, environ, do(st, x.l, environ))

\* calculate(data, environ): do, again and again while the result is a
\* FuncBuilder
RECURSIVE calculate(_, _, _)

\* The reduction that applies do once and gives back what it gave.
calculateAgain_once(st, r, environ) == r

\* data = data.do(environ) gave r
calculateAgain(st, r, environ) ==
    IF r.exc # "" THEN r ELSE calculate(st, r.val, environ)

calculate(st, data, environ) ==
    IF ~IsFuncBuilder(data) THEN Ok(data)
    ELSE calculateAgain(st, do(st, data, environ), environ)

(***************************************************************************)
(* Code objects, Functions, Conditions and Loops                           *)
(***************************************************************************)
\* Code(opcode, data); id tells the Code objects apart (object identity).
Code(opcode, data, id) == [opcode |-> opcode, data |-> data, id |-> id]

\* fix_self(args): the names with self renamed to $
fix_self(args) == [i \in 1..Len(args) |-> MapSelf(args[i])]

\* fix_self(args, kw) as Function.__call__ uses it: the positional VALUES go
\* through the same renaming as names do; kw loses its key self, which comes
\* back as $ at the end of the dictionary.
fix_self_values(args) ==
    [i \in 1..Len(args) |->
        IF args[i] = StrV(SELF) THEN StrV(DOLLAR) ELSE args[i]]

RECURSIVE WithoutKey(_, _)
WithoutKey(kw, k) ==
    IF kw = <<>> THEN <<>>
    ELSE IF Head(kw)[1] = k THEN WithoutKey(Tail(kw), k)
    ELSE <<Head(kw)>> \o WithoutKey(Tail(kw), k)

fix_self_kw(kw) ==
    IF \E i \in 1..Len(kw) : kw[i][1] = SELF
    THEN LET i == CHOOSE j \in 1..Len(kw) : kw[j][1] = SELF
         IN  IF \E j \in 1..Len(kw) : kw[j][1] = DOLLAR
             THEN [j \in 1..Len(WithoutKey(kw, SELF)) |->
                     IF WithoutKey(kw, SELF)[j][1] = DOLLAR
                     THEN <<DOLLAR, kw[i][2]>> ELSE WithoutKey(kw, SELF)[j]]
             ELSE Append(WithoutKey(kw, SELF), <<DOLLAR, kw[i][2]>>)
    ELSE kw

\* Function.__init__
NewFunction(name, args, unpack, environ) ==
    [kind |-> "Function", name |-> name, args |-> fix_self(args),
     unpack |-> unpack, code |-> <<>>, environ |-> environ, parent |-> environ]

\* Condition.__init__: code is code_if[0], which sel = 1 says; sel = 0 says
\* code is code_else, and sel = -1 that it is a list of its own (after end).
NewCondition(expression, parent) ==
    [kind |-> "Condition", name |-> <<"if-elif-else">>, args |-> <<>>,
     unpack |-> NoneV, code |-> <<>>, environ |-> NoneV, parent |-> parent,
     expr_if |-> <<expression>>, code_if |-> << <<>> >>, code_else |-> <<>>,
     sel |-> 1]

\* Loop.__init__: data is the keywords given, as <<name, source>> pairs
NewLoop(data, parent) ==
    [kind |-> "Loop", name |-> <<"for">>, args |-> <<>>, unpack |-> NoneV,
     code |-> <<>>, environ |-> NoneV, parent |-> parent, data |-> data]

IsFunctionKind(o) == o.kind \in {"Function", "Condition", "Loop"}

\* self.code.append(c)
AppendCode(st, id, c) ==
    IF st[id].kind = "Condition" /\ st[id].sel > 0
    THEN [st EXCEPT ![id].code_if[st[id].sel] = Append(@, c)]
    ELSE IF st[id].kind = "Condition" /\ st[id].sel = 0
    THEN [st EXCEPT ![id].code_else = Append(@, c)]
    ELSE [st EXCEPT ![id].code = Append(@, c)]

\* Each builder method gives the heap after it, the object it returns, and
\* the number of Code objects made so far.
Function_set(st, id, kw, n) ==
    [st |-> AppendCode(st, id, Code("update", kw, n + 1)), val |-> Ref(id), n |-> n + 1]

Function_ret(st, id, expr, n) ==
    [st |-> AppendCode(AppendCode(st, id, Code("push", expr, n + 1)),
                       id, Code("ret", udef, n + 2)),
     val |-> Ref(id), n |-> n + 2]

Function_if_(st, id, expr, n) ==
    LET st1 == Alloc(st, NewCondition(expr, Ref(id)))
        cond == Ref(Len(st1))
    IN  [st |-> AppendCode(st1, id, Code("condition", cond, n + 1)),
         val |-> cond, n |-> n + 1]

Function_for_(st, id, kw, n) ==
    LET st1 == Alloc(st, NewLoop(kw, Ref(id)))
        loop == Ref(Len(st1))
    IN  [st |-> AppendCode(st1, id, Code("loop", loop, n + 1)),
         val |-> loop, n |-> n + 1]

\* An end that gives back the object it is asked of.
Function_end_self(st, id) == [st |-> st, val |-> Ref(id)]

\* Function.end: the parent if any, or self
Function_end(st, id) ==
    [st |-> st, val |-> IF ~IsNone(st[id].parent) THEN st[id].parent ELSE Ref(id)]

Condition_elif_(st, id, expr) ==
    [st |-> [st EXCEPT ![id].code_if = Append(@, <<>>),
                       ![id].expr_if = Append(@, expr),
                       ![id].sel = Len(st[id].code_if) + 1],
     val |-> Ref(id)]

Condition_else_(st, id) ==
    [st |-> [st EXCEPT ![id].sel = 0], val |-> Ref(id)]

\* Condition.end: self.code = [], then Function.end
Condition_end(st, id) ==
    Function_end([st EXCEPT ![id].sel = -1, ![id].code = <<>>], id)

\* Environment.def_: fn = Function(name, *args, environ=self); self.d[name] = fn
Environment_def_(st, id, name, args) ==
    LET st1 == Alloc(st, NewFunction(name, args, NoneV, Ref(id)))
        fn == Ref(Len(st1))
    IN  [st |-> [st1 EXCEPT ![id].d = Put(@, name, fn)], val |-> fn]

(***************************************************************************)
(* Condition.code_to_exec and Loop.block_to_exec                           *)
(***************************************************************************)
\* The loop over zip(expr_if, code_if) from pair i on: sel is the pair whose
\* expression was truthy (0: none), reduced the number of calculate calls.
RECURSIVE FirstTruthy(_, _, _, _)

\* The choice that goes past a truthy predicate and stops at a falsy one.
FirstTruthyAt_falsy(st, cond, environ, i, r) ==
    IF r.exc # "" THEN [exc |-> r.exc, sel |-> 0, reduced |-> i]
    ELSE IF ~Truthy(r.val) THEN [exc |-> "", sel |-> i, reduced |-> i]
    ELSE FirstTruthy(st, cond, environ, i + 1)

\* `if calculate(expr, environ): return code`, r being what calculate gave
\* for pair i
FirstTruthyAt(st, cond, environ, i, r) ==
    IF r.exc # "" THEN [exc |-> r.exc, sel |-> 0, reduced |-> i]
    ELSE IF Truthy(r.val) THEN [exc |-> "", sel |-> i, reduced |-> i]
    ELSE FirstTruthy(st, cond, environ, i + 1)

FirstTruthy(st, cond, environ, i) ==
    IF i > Len(cond.expr_if) \/ i > Len(cond.code_if)
    THEN [exc |-> "", sel |-> 0, reduced |-> i - 1]
    ELSE FirstTruthyAt(st, cond, environ, i, calculate(st, cond.expr_if[i], environ))

\* The body returned for the choice r: code_if[sel], or code_else
SelectedCode(st, id, environ, r) ==
    [exc |-> r.exc, sel |-> r.sel, reduced |-> r.reduced,
     code |-> IF r.sel = 0 THEN st[id].code_else ELSE st[id].code_if[r.sel],
     st |-> [st EXCEPT ![id].environ = environ]]

code_to_exec(st, id, environ) ==
    SelectedCode(st, id, environ, FirstTruthy(st, st[id], environ, 1))

\* LoopIter.__init__: iter(value) of a list or a string is a fresh iterator
\* over it; an int or None is not iterable.
NewLoopIter(name, value, code) ==
    [name |-> name, iterator |-> Items(value), raises |-> RaisesAtEnd(value),
     code |-> code]

\* name, value = next(iter(self.data.items())): the first keyword
\* LoopIter(name, value, self.code) for the calculated source value
LoopIterOf(name, value, code) ==
    IF value.exc # "" THEN [exc |-> value.exc, it |-> NewLoopIter(<<>>, ListV(<<>>), <<>>)]
    ELSE IF ~IsIterable(value.val)
    THEN [exc |-> "TypeError", it |-> NewLoopIter(<<>>, ListV(<<>>), <<>>)]
    ELSE [exc |-> "", it |-> NewLoopIter(name, value.val, code)]

block_to_exec(st, id, environ) ==
    LoopIterOf(st[id].data[1][1], calculate(st, st[id].data[1][2], environ),
               st[id].code)

(***************************************************************************)
(* CodeIter: the stream of Code objects of one call                        *)
(***************************************************************************)
\* A call in progress.  code is the InsertIter, loop is CodeIter.loop (0 is
\* None, otherwise an index into iters, the LoopIter objects made by this
\* call); active is the LoopIter the generator's for statement is iterating
\* (0: the generator stands at `yield next(self.code)` or has not started),
\* chain what is left of itertools.chain(set_name, self.code).
NewCodeIter(fn, e, code) ==
    [fn |-> fn, e |-> e, stack |-> <<>>, code |-> code, loop |-> 0,
     iters |-> <<>>, active |-> 0, chain |-> <<>>]

NoFrame == NewCodeIter(0, 0, <<>>)

NoCode == Code("", udef, 0)

\* InsertIter.insert
insert(c, seq) == [c EXCEPT !.code = seq \o @]

\* CodeIter.create_loop
create_loop(c, it) ==
    [c EXCEPT !.iters = Append(@, it), !.loop = Len(c.iters) + 1]

\* `yield next(self.code)`: "stop" is the StopIteration of an empty InsertIter
\* inside the generator.
NextOfCode(c) ==
    IF c.code = <<>>
    THEN [kind |-> "stop", code |-> NoCode, it |-> 0,
          call |-> [c EXCEPT !.active = 0, !.chain = <<>>]]
    ELSE [kind |-> "code", code |-> Head(c.code), it |-> 0,
          call |-> [c EXCEPT !.code = Tail(@), !.active = 0, !.chain = <<>>]]

\* next(self.iterator) in LoopIter.__next__ has no element to give.  Its
\* StopIteration ends the for and leaves self.loop as it is; a TypeError is
\* caught by `except TypeError: self.loop = None` and the generator goes on
\* to `yield next(self.code)`; any other exception leaves the generator.
EndOfLoop(c) ==
    IF c.iters[c.active].raises = "" THEN NextOfCode(c)
    ELSE IF c.iters[c.active].raises = "TypeError"
    THEN NextOfCode([c EXCEPT !.loop = 0])
    ELSE [kind |-> "raise", code |-> NoCode, it |-> c.active, call |-> c,
          exc |-> c.iters[c.active].raises]

\* A loop that binds each element and leaves the body out.
NextOfLoop_nobody(c) ==
    IF c.iters[c.active].iterator = <<>> THEN EndOfLoop(c)
    ELSE [kind |-> "code",
          code |-> Code("update", << <<c.iters[c.active].name,
                                      Head(c.iters[c.active].iterator)>> >>, 0),
          it |-> c.active,
          call |-> [c EXCEPT !.iters[c.active].iterator = Tail(@)]]

\* `for loop in self.loop: for obj in loop: yield iter(obj)` with LoopIter
\* c.active: the rest of the chain, then LoopIter.__next__.
NextOfLoop(c) ==
    LET i == c.active
        it == c.iters[i]
    IN  IF c.chain # <<>>
        THEN [kind |-> "code", code |-> Head(c.chain), it |-> i,
              call |-> [c EXCEPT !.chain = Tail(@)]]
        ELSE IF it.iterator = <<>> THEN EndOfLoop(c)
        ELSE [kind |-> "code",
              code |-> Code("update", << <<it.name, Head(it.iterator)>> >>, 0),
              it |-> i,
              call |-> [c EXCEPT !.iters[i].iterator = Tail(@), !.chain = it.code]]

\* CodeIter.__iter__, resumed once: from inside the for statements, or from
\* the top of `while True`, where iterating self.loop = None is the
\* TypeError that is caught.
CodeIter_next(c) ==
    IF c.active # 0 THEN NextOfLoop(c)
    ELSE IF c.loop = 0 THEN NextOfCode(c)
    ELSE NextOfLoop([c EXCEPT !.active = c.loop, !.chain = <<>>])

(***************************************************************************)
(* Function.__call__ up to the dispatch loop: the call's Environment, the  *)
(* unpack tail, the arity check and the binding of the arguments.          *)
(***************************************************************************)
\* dict(zip(names, values)) as keywords
ZipKw(names, values) ==
    [i \in 1..(IF Len(names) < Len(values) THEN Len(names) ELSE Len(values)) |->
        <<names[i], values[i]>>]

\* What the part of __call__ before the dispatch loop gives: the exception
\* if any, the heap and the call's Environment.
CallResult(x, st, e) == [exc |-> x, st |-> st, e |-> e]

CallBound(e, k) == CallResult(k.exc, k.st, e)

\* e.set of the keywords, a being what e.set of the positional ones did
CallSetKw(e, a, kw) ==
    IF a.exc # "" THEN CallResult(a.exc, a.st, e)
    ELSE CallBound(e, EnvironmentSet(a.st, e, kw, 1))

\* The binding without the arity check: zip pairs as many as it can.
CallBind_unchecked(f, e, u, args, kw) ==
    IF u.exc # "" THEN CallResult(u.exc, u.st, e)
    ELSE CallSetKw(e, EnvironmentSet(u.st, e, ZipKw(f.args, args), 1), kw)

\* The arity check and the binding, u being what the unpack part did
CallBind(f, e, u, args, kw) ==
    IF u.exc # "" THEN CallResult(u.exc, u.st, e)
    ELSE IF Len(f.args) # Len(args) + Len(kw) THEN CallResult("TypeError", u.st, e)
    ELSE CallSetKw(e, EnvironmentSet(u.st, e, ZipKw(f.args, args), 1), kw)

\* `if self.unpack is not None`: the last positional value is unpacked
CallUnpack(f, st, e, args, kw) ==
    IF IsNone(f.unpack) THEN CallBind(f, e, [exc |-> "", st |-> st], args, kw)
    ELSE IF args = <<>> THEN CallResult("ValueError", st, e)
    ELSE IF ~IsSized(args[Len(args)]) THEN CallResult("TypeError", st, e)
    ELSE IF Len(f.unpack.list) # Len(Items(args[Len(args)]))
    THEN CallResult("TypeError", st, e)
    ELSE CallBind(f, e,
            EnvironmentSet(st, e, ZipKw(f.unpack.list, Items(args[Len(args)])), 1),
            SubSeq(args, 1, Len(args) - 1), kw)

\* Environment().set(__parent__ = parent): the heap with the new
\* Environment at its end
ChildEnvironment(st, parent) ==
    EnvironmentSet(Alloc(st, NewEnvironment(EmptyDict)), Len(st) + 1,
                   << <<PARENT, parent>> >>, 1).st

\* e = Environment().set(__parent__ = self.environ)
CallEnvironment(st, id) == ChildEnvironment(st, st[id].environ)

Function__call__(st, id, args0, kw0) ==
    CallUnpack(st[id], CallEnvironment(st, id), Len(st) + 1,
               fix_self_values(args0), fix_self_kw(kw0))

\* {k: calculate(v, e) for k, v in data.items()}: every value, in order,
\* before anything is set
RECURSIVE CalculateAll(_, _, _, _)

CalculateAllPut(k, r, rest) ==
    [exc |-> rest.exc, kw |-> << <<k, r.val>> >> \o rest.kw]

\* The values reduced one by one, each bound before the next is reduced.
CalculateAllNext_seq(st, data, environ, i, r) ==
    IF r.exc # "" THEN [exc |-> r.exc, kw |-> <<>>]
    ELSE CalculateAllPut(data[i][1], r,
            CalculateAll(EnvironmentSet(st, environ.ref,
                                        << <<data[i][1], r.val>> >>, 1).st,
                         data, environ, i + 1))

CalculateAllNext(st, data, environ, i, r) ==
    IF r.exc # "" THEN [exc |-> r.exc, kw |-> <<>>]
    ELSE CalculateAllPut(data[i][1], r, CalculateAll(st, data, environ, i + 1))

CalculateAll(st, data, environ, i) ==
    IF i > Len(data) THEN [exc |-> "", kw |-> <<>>]
    ELSE CalculateAllNext(st, data, environ, i, calculate(st, data[i][2], environ))

(***************************************************************************)
(* Class: an Environment that becomes a class value at its end.            *)
(***************************************************************************)
\* Class.__init__: an Environment with the attributes name, bases and
\* parent.  ends counts the evaluations of the end property so far (a
\* history field, not an attribute of the Python object).
NewClass(name, bases, parent) ==
    [kind |-> "Class", d |-> EmptyDict,
     attrs |-> (LAST :> udef) @@ (NAME :> [str |-> name])
               @@ (BASES :> [tuple |-> bases]) @@ (PARENTATTR :> parent),
     ends |-> 0]

\* Environment.class_(name): Class(name, (), self)
Environment_class_(st, id, name) ==
    [st |-> Alloc(st, NewClass(name, <<>>, Ref(id))), val |-> Ref(Len(st) + 1)]

\* type(self.name, self.bases, self.d): a new class value
TypeOf(c) ==
    [kind |-> "type", name |-> c.attrs[NAME].str, bases |-> c.attrs[BASES].tuple,
     dict |-> c.d]

\* What end gives when parent.set did r
ClassBound(parent, r) == [exc |-> r.exc, val |-> parent, st |-> r.st]

\* The rest of end, cls being the class value made, at the end of heap st
ClassEndBind(st, c, cls) ==
    IF IsNone(c.attrs[PARENTATTR]) THEN [exc |-> "", val |-> cls, st |-> st]
    ELSE ClassBound(c.attrs[PARENTATTR],
            EnvironmentSet(st, c.attrs[PARENTATTR].ref,
                           << <<c.attrs[NAME].str, cls>> >>, 1))

\* Class.end: cls = type(name, bases, d); parent.set binds name to cls; the
\* parent, or cls when there is none.
ClassEnd(st, id) ==
    ClassEndBind(Alloc([st EXCEPT ![id].ends = @ + 1], TypeOf(st[id])),
                 st[id], Ref(Len(st) + 1))

NoCall == [op |-> "", id |-> 0, name |-> <<>>, exc |-> "", val |-> NoneV]

NoOutcome == [kind |-> "", val |-> NoneV, exc |-> "", by |-> ""]

progVars == <<script, cur, func, ncode, pc, call, outcome, trace, prog, pep479>>
envVars == <<kwname, ret, nsets>>
vars == <<store, kwname, ret, nsets, progVars>>

\* No Function is defined or called.
NoProgram ==
    /\ script = <<>>
    /\ cur = NoneV
    /\ func = 0
    /\ ncode = 0
    /\ pc = "idle"
    /\ call = NoFrame
    /\ outcome = NoOutcome
    /\ trace = <<>>
    /\ prog = <<>>
    /\ pep479 = FALSE

(***************************************************************************)
(* SpecAttr: one Environment.set call with one keyword, for every name     *)
(* of up to MaxName characters.  The Environment binds a to an object      *)
(* whose attribute b is another object.                                    *)
(***************************************************************************)
NA == <<"a">>
NB == <<"b">>
Alphabet == {"a", "b", "_"}
AttrValue == IntV(7)

AttrStore ==
    << NewEnvironment([k \in {NA} |-> Ref(2)]),
       NewObject([k \in {NB} |-> Ref(3)]),
       NewObject(EmptyDict) >>

InitAttr ==
    /\ store = AttrStore
    /\ kwname \in {<<>>, SELF, DOLLAR}
    /\ ret = NoCall
    /\ nsets = 0
    /\ NoProgram

Spell(c) ==
    /\ ret.op = ""
    /\ Len(kwname) < MaxName
    /\ kwname' = Append(kwname, c)
    /\ UNCHANGED <<store, ret, nsets, progVars>>

SetAttr ==
    /\ ret.op = ""
    /\ kwname # <<>>
    /\ LET r == EnvironmentSet(store, 1, << <<kwname, AttrValue>> >>, 1)
       IN  /\ store' = r.st
           /\ ret' = [op |-> "set", id |-> 1, name |-> kwname, exc |-> r.exc, val |-> AttrValue]
    /\ UNCHANGED <<kwname, nsets, progVars>>

NextAttr ==
    \/ \E c \in Alphabet : Spell(c)
    \/ SetAttr


SpecAttr == InitAttr /\ [][NextAttr]_vars
(***************************************************************************)
(* Spec: a Function is defined by a chain of builder calls, called once,   *)
(* and its Code objects are dispatched one at a time.                      *)
(***************************************************************************)
NX == <<"x">>
NY == <<"y">>
NW == <<"w">>
NI == <<"i">>
NJ == <<"j">>
NT == <<"t">>
FOO == <<"f", "o", "o">>
BAR == <<"b", "a", "r">>

\* One builder call: the method and its arguments.
Step(m) ==
    [m |-> m, name |-> <<>>, args |-> <<>>, kw |-> <<>>, expr |-> NoneV,
     unpack |-> NoneV]
sSet(k, x) == [Step("set") EXCEPT !.kw = << <<k, x>> >>]
sSet2(k1, x1, k2, x2) == [Step("set") EXCEPT !.kw = << <<k1, x1>>, <<k2, x2>> >>]
sRet(x) == [Step("ret") EXCEPT !.expr = x]
sIf(x) == [Step("if_") EXCEPT !.expr = x]
sElif(x) == [Step("elif_") EXCEPT !.expr = x]
sElse == Step("else_")
sFor(k, x) == [Step("for_") EXCEPT !.kw = << <<k, x>> >>]
sEnd == Step("end")
sDef(n, a) == [Step("def_") EXCEPT !.name = n, !.args = a]
sFunction(n, a) == [Step("Function") EXCEPT !.name = n, !.args = a]
sFunctionUnpack(n, a, u) == [sFunction(n, a) EXCEPT !.unpack = ListV(u)]

Plus(l, r) == Bin("add", l, r)
Times(l, r) == Bin("mul", l, r)

\* "Simple environment with function"; e.a + 1 is computed by the caller.
ScriptEnv ==
    << sSet(NA, IntV(1)), sSet(NB, IntV(2)),
       sDef(FOO, <<NX, NY>>),
         sSet(NA, Var(NB)),
         sRet(Plus(Var(NX), Times(Var(NA), Var(NY)))),
       sEnd >>

\* "IF, ELIF and ELSE clauses"
ScriptIf ==
    << sFunction(FOO, <<NX, NY>>),
         sIf(Var(NX)),
           sRet(Plus(Var(NX), Var(NY))),
         sElif(Bin("eq", Var(NX), NoneV)),
           sRet(Plus(Var(NY), IntV(1))),
         sElse,
           sRet(Var(NY)),
         sEnd,
       sEnd >>

\* "FOR loop"
ScriptFor ==
    << sFunction(BAR, <<NX>>),
         sSet(NW, IntV(0)),
         sFor(NI, Var(NX)),
           sSet(NW, Plus(Var(NW), Bin("pow", Var(NI), IntV(2)))),
         sEnd,
         sRet(Plus(Var(NW), IntV(12))),
       sEnd >>

\* A loop, then a branch without else, and no ret.
ScriptNoRet ==
    << sFunction(FOO, <<NX, NY>>),
         sSet(NW, IntV(0)),
         sFor(NI, Var(NX)),
           sSet(NW, Plus(Var(NW), Var(NI))),
         sEnd,
         sIf(Var(NY)),
           sSet(NT, Var(NW)),
         sEnd,
       sEnd >>

\* A branch inside a loop body, with an instruction after it in the body.
ScriptBranchInLoop ==
    << sDef(FOO, <<NX, NY>>),
         sSet(NW, IntV(0)),
         sFor(NI, Var(NX)),
           sIf(Var(NI)),
             sSet(NW, Plus(Var(NW), Var(NI))),
           sEnd,
           sSet(NT, Var(NI)),
         sEnd,
         sRet(Var(NW)),
       sEnd >>

\* A loop inside a loop body.
ScriptNested ==
    << sFunction(FOO, <<NX, NY>>),
         sSet(NW, IntV(0)),
         sFor(NI, Var(NX)),
           sFor(NJ, Var(NX)),
             sSet(NW, Plus(Var(NW), IntV(1))),
           sEnd,
         sEnd,
         sRet(Var(NW)),
       sEnd >>

\* A loop inside a branch body, and a branch inside a branch body.
ScriptLoopInBranch ==
    << sFunction(FOO, <<NX, NY>>),
         sSet(NW, IntV(0)),
         sIf(Var(NY)),
           sFor(NI, Var(NX)),
             sSet(NW, Plus(Var(NW), Var(NI))),
           sEnd,
           sIf(Var(NW)),
             sSet(NT, IntV(1)),
           sEnd,
           sSet(NW, Plus(Var(NW), IntV(1))),
         sEnd,
         sRet(Var(NW)),
       sEnd >>

\* A ret inside a loop body and one inside a branch body, with instructions
\* after them.
ScriptRetInside ==
    << sFunction(FOO, <<NX, NY>>),
         sSet(NW, IntV(1)),
         sIf(Var(NY)),
           sRet(Var(NW)),
           sSet(NW, IntV(2)),
         sEnd,
         sFor(NI, Var(NX)),
           sRet(Var(NI)),
           sSet(NW, IntV(3)),
         sEnd,
         sRet(IntV(0)),
       sEnd >>

\* A predicate that cannot be reduced (i is not bound) after one that can.
ScriptElifUnbound ==
    << sFunction(FOO, <<NX, NY>>),
         sIf(Var(NX)),
           sSet(NW, IntV(1)),
         sElif(Var(NI)),
           sSet(NW, IntV(2)),
         sElif(Var(NY)),
           sSet(NW, IntV(3)),
         sElse,
         sEnd,
         sRet(Var(NW)),
       sEnd >>

\* A local name that is also the name of an attribute of every Environment.
ScriptLast ==
    << sSet(NA, IntV(1)),
       sDef(FOO, <<NX, NY>>),
         sSet(LAST, Var(NY)),
         sRet(Var(LAST)),
       sEnd >>

\* "LAMBDA with unpack assignment", with one declared parameter before the
\* unpack tail.
ScriptUnpack ==
    << sFunctionUnpack(FOO, <<NY>>, <<NA, NB>>),
         sSet(NW, Bin("pow", Var(NA), IntV(2))),
         sRet(Plus(Var(NW), Times(Var(NB), Var(NY)))),
       sEnd >>

\* The closure binds a to a deferred expression, not to a value.
ScriptDeferred ==
    << sSet(NB, IntV(2)), sSet(NA, Plus(Var(NB), IntV(1))),
       sDef(FOO, <<NX, NY>>),
         sRet(Times(Var(NA), Var(NY))),
       sEnd >>

\* One set with two bindings that read each other, then sets one by one.
ScriptSwap ==
    << sFunction(FOO, <<NX, NY>>),
         sSet2(NX, Var(NY), NY, Var(NX)),
         sSet(NW, Var(NX)),
         sSet(NT, Var(NW)),
         sRet(Var(NT)),
       sEnd >>

\* A loop whose variable is a name the call has already bound.
ScriptShadow ==
    << sFunction(FOO, <<NX, NY>>),
         sFor(NY, Var(NX)),
           sSet(NW, Var(NY)),
         sEnd,
         sRet(Var(NY)),
       sEnd >>

\* Blocks opened inside an elif and an else clause, with instructions after
\* their end.
ScriptElifNested ==
    << sFunction(FOO, <<NX, NY>>),
         sIf(Var(NY)),
           sSet(NT, IntV(1)),
         sElif(Var(NX)),
           sFor(NI, Var(NX)),
             sSet(NW, Var(NI)),
           sEnd,
           sSet(NT, Var(NW)),
         sElse,
           sIf(Bin("eq", Var(NX), NoneV)),
             sSet(NW, IntV(0)),
           sEnd,
           sSet(NT, IntV(2)),
         sEnd,
         sRet(Var(NT)),
       sEnd >>

\* The closure binds x, which is also the second parameter; the first
\* parameter is y, so that a call can give y both by position and by keyword.
ScriptKw ==
    << sSet(NX, IntV(1)),
       sDef(FOO, <<NY, NX>>),
         sRet(Var(NX)),
       sEnd >>

Scripts ==
    { ScriptEnv, ScriptIf, ScriptFor, ScriptNoRet, ScriptBranchInLoop,
      ScriptNested, ScriptLoopInBranch, ScriptRetInside, ScriptElifUnbound,
      ScriptLast, ScriptUnpack, ScriptDeferred, ScriptSwap, ScriptShadow,
      ScriptElifNested, ScriptKw }

\* The arguments of the call.
Elements == {IntV(0), IntV(1), IntV(2)}
Lists == UNION { [1..n -> Elements] : n \in 0..MaxLen }
XValues ==
    { ListV(l) : l \in Lists }
        \cup {IntV(10), NoneV, StrV(SELF), StrV(DOLLAR)}
        \cup {FailV(<<IntV(1)>>, x) : x \in {"TypeError", "ValueError"}}
YValues == {IntV(16), IntV(0)}

Positional ==
    {<<>>} \cup { <<x>> : x \in XValues }
           \cup { <<x, y>> : x \in XValues, y \in YValues }
           \cup { <<x, y, IntV(0)>> : x \in XValues, y \in YValues }

Keywords == {<<>>} \cup { << <<NY, y>> >> : y \in YValues }

Init ==
    /\ store = << NewEnvironment(EmptyDict) >>
    /\ script \in Scripts
    /\ prog = script
    /\ cur = Ref(1)
    /\ func = 0
    /\ ncode = 0
    /\ pc = "define"
    /\ call = NoFrame
    /\ outcome = NoOutcome
    /\ trace = <<>>
    /\ pep479 \in BOOLEAN
    /\ kwname = <<>>
    /\ ret = NoCall
    /\ nsets = 0

Defining(m) == pc = "define" /\ script # <<>> /\ Head(script).m = m

\* The builder call at the head of the script has been made and gave r.
Built(r) ==
    /\ store' = r.st
    /\ cur' = r.val
    /\ script' = Tail(script)
    /\ UNCHANGED <<pc, call, outcome, trace, prog, pep479, envVars>>

\* Function(name, *args)
Build_Function ==
    /\ Defining("Function")
    /\ LET st1 == Alloc(store, NewFunction(Head(script).name, Head(script).args,
                                         Head(script).unpack, NoneV))
       IN  /\ Built([st |-> st1, val |-> Ref(Len(st1))])
           /\ func' = Len(st1)
    /\ UNCHANGED ncode

Build_def_ ==
    /\ Defining("def_")
    /\ IsEnvKind(store[cur.ref])
    /\ LET r == Environment_def_(store, cur.ref, Head(script).name, Head(script).args)
       IN  /\ Built(r)
           /\ func' = r.val.ref
    /\ UNCHANGED ncode

\* Environment.set, at definition time
Build_Environment_set ==
    /\ Defining("set")
    /\ IsEnvKind(store[cur.ref])
    /\ \E r \in {EnvironmentSet(store, cur.ref, Head(script).kw, 1)} :
           r.exc = "" /\ Built([st |-> r.st, val |-> cur])
    /\ UNCHANGED <<func, ncode>>

Build_set ==
    /\ Defining("set")
    /\ IsFunctionKind(store[cur.ref])
    /\ LET r == Function_set(store, cur.ref, Head(script).kw, ncode)
       IN  Built(r) /\ ncode' = r.n
    /\ UNCHANGED func

Build_ret ==
    /\ Defining("ret")
    /\ IsFunctionKind(store[cur.ref])
    /\ LET r == Function_ret(store, cur.ref, Head(script).expr, ncode)
       IN  Built(r) /\ ncode' = r.n
    /\ UNCHANGED func

Build_if_ ==
    /\ Defining("if_")
    /\ IsFunctionKind(store[cur.ref])
    /\ LET r == Function_if_(store, cur.ref, Head(script).expr, ncode)
       IN  Built(r) /\ ncode' = r.n
    /\ UNCHANGED func

Build_for_ ==
    /\ Defining("for_")
    /\ IsFunctionKind(store[cur.ref])
    /\ LET r == Function_for_(store, cur.ref, Head(script).kw, ncode)
       IN  Built(r) /\ ncode' = r.n
    /\ UNCHANGED func

Build_elif_ ==
    /\ Defining("elif_")
    /\ store[cur.ref].kind = "Condition"
    /\ Built(Condition_elif_(store, cur.ref, Head(script).expr))
    /\ UNCHANGED <<func, ncode>>

Build_else_ ==
    /\ Defining("else_")
    /\ store[cur.ref].kind = "Condition"
    /\ Built(Condition_else_(store, cur.ref))
    /\ UNCHANGED <<func, ncode>>

Build_end ==
    /\ Defining("end")
    /\ IsFunctionKind(store[cur.ref])
    /\ Built(IF store[cur.ref].kind = "Condition"
             THEN Condition_end(store, cur.ref)
             ELSE Function_end(store, cur.ref))
    /\ UNCHANGED <<func, ncode>>
\* Function.__call__(*args, **kw), up to the first Code object
Call(args, kw) ==
    /\ pc = "define"
    /\ script = <<>>
    /\ func # 0
    /\ \E r \in {Function__call__(store, func, args, kw)} :
           /\ store' = r.st
           /\ IF r.exc = ""
              THEN /\ pc' = "run"
                   /\ call' = NewCodeIter(func, r.e, store[func].code)
                   /\ outcome' = NoOutcome
              ELSE /\ pc' = "done"
                   /\ call' = NewCodeIter(func, r.e, <<>>)
                   /\ outcome' = [kind |-> "raise", val |-> NoneV, exc |-> r.exc,
                                  by |-> "call"]
    /\ ret' = [op |-> "call", id |-> func, name |-> <<>>, exc |-> "",
               val |-> [args |-> args, kw |-> kw,
                        closure |-> IF IsRef(store[func].environ)
                                    THEN store[store[func].environ.ref].d
                                    ELSE EmptyDict]]
    /\ UNCHANGED <<script, cur, func, ncode, trace, prog, pep479, kwname, nsets>>

\* One Code object dispatched: what the trace keeps of it.  it is the
\* LoopIter it was drawn from (0: from the InsertIter).  The actions fill in
\* the rest: name and val, the first name of an update and the value it
\* gets (for a push, its expression; for a loop, its source); sel and
\* reduced, the body chosen by a condition and the number of predicates it
\* reduced; obj, the Condition or Loop; made, the LoopIter a loop creates.
Event(c, it) ==
    [id |-> c.id, opcode |-> c.opcode, it |-> it, name |-> <<>>, val |-> NoneV,
     sel |-> 0, reduced |-> 0, obj |-> 0, made |-> 0]

\* `for opc, data in code` gives f, a Code object with opcode opc.
Drawn(f, opc) == pc = "run" /\ f.kind = "code" /\ f.code.opcode = opc

\* The call goes on with frame c.
GoOn(c) == pc' = "run" /\ call' = c /\ outcome' = NoOutcome

\* The call ends with exception x.
Raised(c, x, by) ==
    /\ pc' = "done"
    /\ call' = c
    /\ outcome' = [kind |-> "raise", val |-> NoneV, exc |-> x, by |-> by]

\* The call returns v.
Returned(c, v, by) ==
    /\ pc' = "done"
    /\ call' = c
    /\ outcome' = [kind |-> "return", val |-> v, exc |-> "", by |-> by]

\* An update that binds in an Environment of its own, a child of the call's.
UpdateSet_child(c, v) ==
    IF v.exc # "" THEN Raised(c, v.exc, "update") /\ store' = store
    ELSE \E r \in {EnvironmentSet(ChildEnvironment(store, Ref(call.e)),
                                   Len(store) + 1, v.kw, 1)} :
            /\ store' = r.st
            /\ IF r.exc # "" THEN Raised(c, r.exc, "update") ELSE GoOn(c)

\* e.set of the calculated keywords v
UpdateSet(c, v) ==
    IF v.exc # "" THEN Raised(c, v.exc, "update") /\ store' = store
    ELSE \E r \in {EnvironmentSet(store, call.e, v.kw, 1)} :
            /\ store' = r.st
            /\ IF r.exc # "" THEN Raised(c, r.exc, "update") ELSE GoOn(c)

\* opc == 'update': e.set of the calculated values
Dispatch_update ==
    /\ \E f \in {CodeIter_next(call)} :
           /\ Drawn(f, "update")
           /\ \E v \in {CalculateAll(store, f.code.data, Ref(call.e), 1)} :
                  /\ trace' = Append(trace,
                        [Event(f.code, f.it) EXCEPT
                            !.name = IF f.code.data = <<>> THEN <<>>
                                     ELSE f.code.data[1][1],
                            !.val = IF v.kw = <<>> THEN NoneV ELSE v.kw[1][2]])
                  /\ UpdateSet(f.call, v)
    /\ UNCHANGED <<script, cur, func, ncode, prog, pep479, envVars>>

\* opc == 'push': stack.append(calculate(data, e))
Dispatch_push ==
    /\ \E f \in {CodeIter_next(call)} :
           /\ Drawn(f, "push")
           /\ trace' = Append(trace, [Event(f.code, f.it) EXCEPT !.val = f.code.data])
           /\ \E v \in {calculate(store, f.code.data, Ref(call.e))} :
                  IF v.exc # "" THEN Raised(f.call, v.exc, "push")
                  ELSE GoOn([f.call EXCEPT !.stack = Append(@, v.val)])
    /\ UNCHANGED <<store, script, cur, func, ncode, prog, pep479, envVars>>

\* opc == 'ret': return stack.pop()
Dispatch_ret ==
    /\ \E f \in {CodeIter_next(call)} :
           /\ Drawn(f, "ret")
           /\ trace' = Append(trace, Event(f.code, f.it))
           /\ IF call.stack = <<>> THEN Raised(f.call, "IndexError", "ret")
              ELSE Returned([f.call EXCEPT !.stack = SubSeq(@, 1, Len(@) - 1)],
                            call.stack[Len(call.stack)], "ret")
    /\ UNCHANGED <<store, script, cur, func, ncode, prog, pep479, envVars>>

\* opc == 'condition': code.insert(data.code_to_exec(e))
Dispatch_condition ==
    /\ \E f \in {CodeIter_next(call)} :
           /\ Drawn(f, "condition")
           /\ \E r \in {code_to_exec(store, f.code.data.ref, Ref(call.e))} :
                  /\ trace' = Append(trace,
                        [Event(f.code, f.it) EXCEPT
                            !.sel = r.sel, !.reduced = r.reduced,
                            !.obj = f.code.data.ref])
                  /\ store' = r.st
                  /\ IF r.exc # "" THEN Raised(f.call, r.exc, "condition")
                     ELSE GoOn(insert(f.call, r.code))
    /\ UNCHANGED <<script, cur, func, ncode, prog, pep479, envVars>>

\* opc == 'loop': code.create_loop(data.block_to_exec(e))
Dispatch_loop ==
    /\ \E f \in {CodeIter_next(call)} :
           /\ Drawn(f, "loop")
           /\ \E r \in {block_to_exec(store, f.code.data.ref, Ref(call.e))} :
                  /\ trace' = Append(trace,
                        [Event(f.code, f.it) EXCEPT
                            !.val = ListV(r.it.iterator),
                            !.obj = f.code.data.ref,
                            !.made = IF r.exc = "" THEN Len(call.iters) + 1 ELSE 0])
                  /\ IF r.exc # "" THEN Raised(f.call, r.exc, "loop")
                     ELSE GoOn(create_loop(f.call, r.it))
    /\ UNCHANGED <<store, script, cur, func, ncode, prog, pep479, envVars>>

\* The CodeIter has nothing left: next(self.code) raises StopIteration inside
\* the generator.  Before PEP 479 that ends the generator and the call
\* returns None; with it (Python 3.7 on) it is a RuntimeError in the caller.
Exhausted ==
    /\ pc = "run"
    /\ \E f \in {CodeIter_next(call)} :
           /\ f.kind = "stop"
           /\ IF pep479 THEN Raised(f.call, "RuntimeError", "exhausted")
              ELSE Returned(f.call, NoneV, "exhausted")
    /\ UNCHANGED <<store, script, cur, func, ncode, trace, prog, pep479, envVars>>

\* next(self.iterator) raised something other than StopIteration and
\* TypeError: it leaves the generator and ends `for opc, data in code`.
IterRaised ==
    /\ pc = "run"
    /\ \E f \in {CodeIter_next(call)} :
           /\ f.kind = "raise"
           /\ Raised(f.call, f.exc, "iter")
    /\ UNCHANGED <<store, script, cur, func, ncode, trace, prog, pep479, envVars>>

Next ==
    \/ Build_Function
    \/ Build_def_
    \/ Build_Environment_set
    \/ Build_set
    \/ Build_ret
    \/ Build_if_
    \/ Build_for_
    \/ Build_elif_
    \/ Build_else_
    \/ Build_end
    \/ \E a \in Positional, k \in Keywords : Call(a, k)
    \/ Dispatch_update
    \/ Dispatch_push
    \/ Dispatch_ret
    \/ Dispatch_condition
    \/ Dispatch_loop
    \/ Exhausted
    \/ IterRaised

Spec == Init /\ [][Next]_vars

(***************************************************************************)
(* Several calls of one Function, one after the other                      *)
(***************************************************************************)
\* The number of calls one behaviour makes.
MaxCalls == 2

ScriptsCalls == {ScriptFor, ScriptNoRet, ScriptDeferred, ScriptElifNested}

XCalls == {ListV(<<IntV(1), IntV(2)>>), ListV(<<>>), NoneV}

PositionalCalls ==
    {<<>>} \cup { <<x>> : x \in XCalls }
           \cup { <<x, y>> : x \in XCalls, y \in YValues }

InitCalls ==
    /\ store = << NewEnvironment(EmptyDict) >>
    /\ script \in ScriptsCalls
    /\ prog = script
    /\ cur = Ref(1)
    /\ func = 0
    /\ ncode = 0
    /\ pc = "define"
    /\ call = NoFrame
    /\ outcome = NoOutcome
    /\ trace = <<>>
    /\ pep479 \in BOOLEAN
    /\ kwname = <<>>
    /\ ret = NoCall
    /\ nsets = 0

\* The Environments made by calls: each call makes one, before anything
\* else (193), and binds __parent__ in it.
CallEnvironments(st) ==
    {i \in 1..Len(st) : st[i].kind = "Environment" /\ PARENT \in DOMAIN st[i].d}

\* Function.__call__(*args, **kw) once more, after an earlier call has
\* returned or raised: stack and CodeIter are locals of __call__ and start
\* anew, the heap is what the earlier calls left.
CallAgain(args, kw) ==
    /\ pc = "done"
    /\ script = <<>>
    /\ func # 0
    /\ ret.op = "call"
    /\ Cardinality(CallEnvironments(store)) < MaxCalls
    /\ \E r \in {Function__call__(store, func, args, kw)} :
           /\ store' = r.st
           /\ IF r.exc = ""
              THEN /\ pc' = "run"
                   /\ call' = NewCodeIter(func, r.e, store[func].code)
                   /\ outcome' = NoOutcome
              ELSE /\ pc' = "done"
                   /\ call' = NewCodeIter(func, r.e, <<>>)
                   /\ outcome' = [kind |-> "raise", val |-> NoneV, exc |-> r.exc,
                                  by |-> "call"]
    /\ ret' = [op |-> "call", id |-> func, name |-> <<>>, exc |-> "",
               val |-> [args |-> args, kw |-> kw,
                        closure |-> IF IsRef(store[func].environ)
                                    THEN store[store[func].environ.ref].d
                                    ELSE EmptyDict]]
    /\ trace' = <<>>
    /\ UNCHANGED <<script, cur, func, ncode, prog, pep479, kwname, nsets>>

NextCalls ==
    \/ Build_Function
    \/ Build_def_
    \/ Build_Environment_set
    \/ Build_set
    \/ Build_ret
    \/ Build_if_
    \/ Build_for_
    \/ Build_elif_
    \/ Build_else_
    \/ Build_end
    \/ \E a \in PositionalCalls, k \in Keywords : Call(a, k)
    \/ \E a \in PositionalCalls, k \in Keywords : CallAgain(a, k)
    \/ Dispatch_update
    \/ Dispatch_push
    \/ Dispatch_ret
    \/ Dispatch_condition
    \/ Dispatch_loop
    \/ Exhausted

SpecCalls == InitCalls /\ [][NextCalls]_vars
(***************************************************************************)
(* SpecEnv: Environments in a parent chain, bound with set and looked up   *)
(* by attribute access; Classes opened with class_ and ended.              *)
(***************************************************************************)
CLS == <<"C">>
\* A name nothing else defines, and the names that are attributes or
\* methods of the Environment object as well.
EnvNames == {NA, LAST, DD} \cup EnvironmentMethods
\* The k-th set call binds the value k.
EnvValues == {IntV(nsets + 1)}

\* A lookup changes nothing: the model makes it after the calls that do.
Changing == ret.op # "get"

\* The Environments and Classes of the heap.
EnvIds == {i \in 1..Len(store) : IsEnvKind(store[i])}

InitEnv ==
    /\ store = << NewEnvironment(EmptyDict) >>
    /\ kwname = <<>>
    /\ ret = NoCall
    /\ nsets = 0
    /\ NoProgram

\* Environment().set(__parent__ = p), as Function.__call__ makes the scope of
\* a call
EnvChild(p) ==
    /\ Changing
    /\ store[p].kind = "Environment"
    /\ Len(store) < MaxHeap
    /\ store' = ChildEnvironment(store, Ref(p))
    /\ ret' = [op |-> "new", id |-> Len(store) + 1, name |-> <<>>, exc |-> "",
               val |-> Ref(p)]
    /\ UNCHANGED <<kwname, nsets, progVars>>

\* store[id].set(n = v)
EnvSet(id, n, v) ==
    /\ Changing
    /\ nsets < MaxSets
    /\ \E r \in {EnvironmentSet(store, id, << <<n, v>> >>, 1)} :
           /\ store' = r.st
           /\ ret' = [op |-> "set", id |-> id, name |-> n, exc |-> r.exc, val |-> v]
    /\ nsets' = nsets + 1
    /\ UNCHANGED <<kwname, progVars>>

\* getattr(store[id], n): what var.n does with the scope
EnvGet(id, n) ==
    /\ Changing
    /\ \E r \in {getattr(store, Ref(id), n)} :
           ret' = [op |-> "get", id |-> id, name |-> n, exc |-> r.exc, val |-> r.val]
    /\ UNCHANGED <<store, kwname, nsets, progVars>>

\* store[id].class_('C')
EnvClass(id) ==
    /\ Changing
    /\ store[id].kind = "Environment"
    /\ Len(store) < MaxHeap
    /\ store' = Environment_class_(store, id, CLS).st
    /\ ret' = [op |-> "class_", id |-> Len(store) + 1, name |-> CLS, exc |-> "",
               val |-> Ref(Len(store) + 1)]
    /\ UNCHANGED <<kwname, nsets, progVars>>

\* store[c].end, c being a Class
EnvEnd(c) ==
    /\ Changing
    /\ store[c].kind = "Class"
    /\ Len(store) < MaxHeap
    /\ \E r \in {ClassEnd(store, c)} :
           /\ store' = r.st
           /\ ret' = [op |-> "end", id |-> c, name |-> CLS, exc |-> r.exc, val |-> r.val]
    /\ UNCHANGED <<kwname, nsets, progVars>>

NextEnv ==
    \/ \E p \in EnvIds : EnvChild(p)
    \/ \E id \in EnvIds, n \in EnvNames, v \in EnvValues : EnvSet(id, n, v)
    \/ \E id \in EnvIds, n \in EnvNames \cup {CLS} : EnvGet(id, n)
    \/ \E id \in EnvIds : EnvClass(id)
    \/ \E c \in EnvIds : EnvEnd(c)

SpecEnv == InitEnv /\ [][NextEnv]_vars
(***************************************************************************)
(* Properties of a call (Spec)                                             *)
(***************************************************************************)
Last(seq) == seq[Len(seq)]

\* A call has been made; its arguments are in ret.val.
Called == ret.op = "call"

\* The number of events of s drawn from LoopIter k.
RECURSIVE CountIt(_, _)
CountIt(s, k) ==
    IF s = <<>> THEN 0
    ELSE (IF Head(s).it = k THEN 1 ELSE 0) + CountIt(Tail(s), k)

\* The events of s drawn from LoopIter k, in order.
RECURSIVE EventsOf(_, _)
EventsOf(s, k) ==
    IF s = <<>> THEN <<>>
    ELSE (IF Head(s).it = k THEN <<Head(s)>> ELSE <<>>) \o EventsOf(Tail(s), k)

\* C1: when a Function without an unpack tail is called with a number of
\* positional plus keyword arguments other than the number of its declared
\* parameters, the call ends with TypeError before any instruction is
\* dispatched, and no argument has been bound: the call's Environment holds
\* its parent link only.
C1_ArityError ==
    (/\ Called
     /\ IsNone(store[func].unpack)
     /\ Len(ret.val.args) + Len(ret.val.kw) # Len(store[func].args))
    => /\ pc = "done"
       /\ outcome.kind = "raise"
       /\ outcome.exc = "TypeError"
       /\ outcome.by = "call"
       /\ trace = <<>>
       /\ DOMAIN store[call.e].d = {PARENT}

\* A call with one positional argument for two declared parameters has failed.
C1_Witness ==
    /\ Called
    /\ Len(store[func].args) = 2
    /\ Len(ret.val.args) = 1
    /\ ret.val.kw = <<>>
    /\ outcome.exc = "TypeError"
    /\ outcome.by = "call"

\* The value of predicate i of Condition c in the Environment of the call.
PredValue(c, i) == calculate(store, store[c].expr_if[i], Ref(call.e))

\* The predicates of c that decide: the truthy ones and the ones that raise.
Decisive(c) ==
    {i \in 1..Len(store[c].expr_if) :
        PredValue(c, i).exc # "" \/ Truthy(PredValue(c, i).val)}

\* The first deciding predicate of c in declared order; 0 when there is none.
FirstDecisive(c) ==
    IF Decisive(c) = {} THEN 0
    ELSE CHOOSE i \in Decisive(c) : \A j \in Decisive(c) : i <= j

\* The body a Condition event selected.
SelectedBody(e) ==
    IF e.sel = 0 THEN store[e.obj].code_else ELSE store[e.obj].code_if[e.sel]

\* What C2 says of the step that dispatches the condition Code f.
BranchStep(f, k) ==
    IF k = 0
    THEN /\ pc' = "run"
         /\ call'.code = store[f.code.data.ref].code_else \o f.call.code
         /\ Last(trace').sel = 0
         /\ Last(trace').reduced = Len(store[f.code.data.ref].expr_if)
    ELSE IF PredValue(f.code.data.ref, k).exc # ""
    THEN pc' = "done" /\ outcome'.exc = PredValue(f.code.data.ref, k).exc
    ELSE /\ pc' = "run"
         /\ call'.code = store[f.code.data.ref].code_if[k] \o f.call.code
         /\ Last(trace').sel = k
         /\ Last(trace').reduced = k

\* C2: the step that dispatches a condition reduces the predicates in
\* declared order up to the first truthy one and no further, and puts the
\* body of that predicate (the else body when none is truthy) at the head of
\* the instruction stream; when the stream is read next, the first
\* instruction of that body is the one dispatched.
C2_FirstTruthy ==
    [][ /\ (pc = "run" /\ CodeIter_next(call).kind = "code"
               /\ CodeIter_next(call).code.opcode = "condition")
            => BranchStep(CodeIter_next(call),
                          FirstDecisive(CodeIter_next(call).code.data.ref))
        /\ (/\ trace # <<>>
            /\ trace' # trace
            /\ Last(trace).opcode = "condition"
            /\ SelectedBody(Last(trace)) # <<>>
            /\ Last(trace').it = 0)
            => Last(trace').id = SelectedBody(Last(trace))[1].id
      ]_vars

\* The first predicate was truthy and the second, which reads a name that
\* is not bound, was not reduced: the call goes on.
C2_Witness ==
    /\ prog = ScriptElifUnbound
    /\ pc = "run"
    /\ trace # <<>>
    /\ Last(trace).opcode = "condition"
    /\ Last(trace).sel = 1
    /\ Last(trace).reduced = 1

\* The Code ids of the Loop instructions in the Function's own sequence.
TopLoopIds ==
    {store[func].code[i].id : i \in {j \in 1..Len(store[func].code) :
                                        store[func].code[j].opcode = "loop"}}

\* Event q of the iterations of a loop over src with body: the binding of
\* the element, then the instructions of the body, for each element in order.
IterationEvent(e, q, src, body, name) ==
    IF (q - 1) % (Len(body) + 1) = 0
    THEN /\ e.id = 0
         /\ e.opcode = "update"
         /\ e.name = name
         /\ e.val = src[((q - 1) \div (Len(body) + 1)) + 1]
    ELSE e.id = body[(q - 1) % (Len(body) + 1)].id

\* What C3 says of the top-level loop dispatched as event p of the trace.
LoopRuns(p) ==
    LET k == trace[p].made
        src == trace[p].val.list
        body == store[trace[p].obj].code
        name == store[trace[p].obj].data[1][1]
        after == SubSeq(trace, p + 1, Len(trace))
        total == Len(src) * (Len(body) + 1)
    IN  /\ CountIt(after, k) <= total
        /\ \A q \in 1..CountIt(after, k) :
               IterationEvent(EventsOf(after, k)[q], q, src, body, name)
        /\ \A q \in 1..Len(after) :
               after[q].it # k => CountIt(SubSeq(after, 1, q - 1), k) = total
        /\ (pc = "done" /\ outcome.by = "exhausted") => CountIt(after, k) = total
        /\ (pc = "run" /\ Last(trace).it = k /\ Last(trace).id = 0)
               => /\ name \in DOMAIN store[call.e].d
                  /\ store[call.e].d[name] = Last(trace).val

\* C3: for a Loop of the Function's own sequence over a list of n elements,
\* the instructions dispatched from the loop are, for each element in order,
\* the binding of the loop variable to it and then the instructions of the
\* body; nothing else is dispatched before the n-th body is done, and the
\* variable is bound in the call's Environment when the body starts.
C3_LoopIterations ==
    Called =>
        \A p \in 1..Len(trace) :
            (trace[p].opcode = "loop" /\ trace[p].id \in TopLoopIds /\ trace[p].made # 0)
                => LoopRuns(p)

\* The FOR test called with a list of two elements: two bindings, two
\* bodies, then the instructions after the loop, and 1 + 4 + 12 returned.
C3_Witness ==
    /\ prog = ScriptFor
    /\ pc = "done"
    /\ ret.val.args = << ListV(<<IntV(1), IntV(2)>>) >>
    /\ Len(trace) = 8
    /\ trace[3].id = 0 /\ trace[3].val = IntV(1)
    /\ trace[5].id = 0 /\ trace[5].val = IntV(2)
    /\ trace[7].opcode = "push"
    /\ outcome.val = IntV(17)
\* The instructions before position q of body are plain ones: none of them
\* opens a body of its own or ends the call.
PlainBefore(body, q) ==
    \A i \in 1..(q - 1) : body[i].opcode \in {"update", "push"}

\* C4: after a condition is dispatched, the instructions of the body it
\* selected are the next ones dispatched, in order, wherever the condition
\* stands: nothing else of the call is dispatched before them.
C4_BodyBeforeResume ==
    \A p \in 1..Len(trace) :
        trace[p].opcode = "condition" =>
            \A q \in 1..Len(SelectedBody(trace[p])) :
                (p + q <= Len(trace) /\ PlainBefore(SelectedBody(trace[p]), q))
                    => trace[p + q].id = SelectedBody(trace[p])[q].id

\* A condition in a loop body over [1, 2] whose selected body adds the
\* element to w: both bodies ran after the loop, with i = 2, and the call
\* returned 4.
C4_Witness ==
    /\ prog = ScriptBranchInLoop
    /\ pc = "done"
    /\ ret.val.args = << ListV(<<IntV(1), IntV(2)>>), IntV(16) >>
    /\ ret.val.kw = <<>>
    /\ outcome.kind = "return"
    /\ outcome.val = IntV(4)

\* C5: a call whose instruction stream runs out without a ret returns None;
\* running out is never an exception in the caller.
C5_ExhaustedReturnsNone ==
    outcome.by = "exhausted" => (outcome.kind = "return" /\ outcome.val = NoneV)

\* The stream of a Function without ret ran out and the caller got
\* RuntimeError.
C5_Witness ==
    /\ prog = ScriptNoRet
    /\ pc = "done"
    /\ outcome.by = "exhausted"
    /\ outcome.kind = "raise"
    /\ outcome.exc = "RuntimeError"

\* The push that ret() appended right before the ret dispatched last.
PushOfRet ==
    {p \in 1..Len(trace) :
        trace[p].opcode = "push" /\ trace[p].id = Last(trace).id - 1}

\* C6: the value a ret returns is its expression reduced against the call's
\* Environment as it is when the ret is dispatched, which ends the call.
C6_ReturnsValueAtRet ==
    (pc = "done" /\ outcome.by = "ret" /\ outcome.kind = "return")
    => /\ PushOfRet # {}
       /\ \A p \in PushOfRet :
              (\A q \in PushOfRet : q <= p)
                  => calculate(store, trace[p].val, Ref(call.e)) = Ok(outcome.val)

\* Two nested loops over [1, 2] count the inner bodies in w: ret(var.w)
\* returned 0 although w is 2 when the ret is dispatched.
C6_Witness ==
    /\ prog = ScriptNested
    /\ pc = "done"
    /\ ret.val.args = << ListV(<<IntV(1), IntV(2)>>), IntV(16) >>
    /\ outcome.by = "ret"
    /\ outcome.val = IntV(0)
    /\ store[call.e].d[NW] = IntV(2)

\* The Environment the called Function was defined in.
Closure == store[func].environ

\* C7: in a call, an update of a plain name binds it in the call's own
\* Environment only: a read of the name then gives the new value, a name the
\* call has not bound is read from the closure, the closure's bindings stay
\* as they were before the call, and the function with parameters (x, y) and
\* body set(a = var.b), ret(var.x + var.a * var.y), defined where a = 1 and
\* b = 2, returns 58 when called with (10, 16).
C7_LocalBinding ==
    Called =>
        /\ (pc = "run" /\ trace # <<>> /\ Last(trace).opcode = "update")
               => getattr(store, Ref(call.e), Last(trace).name) = Ok(Last(trace).val)
        /\ IsRef(Closure)
               => /\ store[Closure.ref].d = ret.val.closure
                  /\ \A n \in DOMAIN ret.val.closure \ DOMAIN store[call.e].d :
                         getattr(store, Ref(call.e), n) = Ok(ret.val.closure[n])
        /\ (/\ prog = ScriptEnv
            /\ pc = "done"
            /\ ret.val.args = <<IntV(10), IntV(16)>>
            /\ ret.val.kw = <<>>)
               => (outcome.kind = "return" /\ outcome.val = IntV(58))

\* set(last = var.y) has bound last to 16 in the call's Environment, and a
\* read of last in that Environment gives udef.
C7_Witness ==
    /\ prog = ScriptLast
    /\ pc = "run"
    /\ trace # <<>>
    /\ Last(trace).opcode = "update"
    /\ Last(trace).name = LAST
    /\ store[call.e].d[LAST] = IntV(16)
    /\ getattr(store, Ref(call.e), LAST) = Ok(udef)

(***************************************************************************)
(* Properties of Environments (SpecEnv) and of keyword names (SpecAttr)    *)
(***************************************************************************)
\* The scope nearest to id in its parent chain whose bindings hold name;
\* 0 when no scope of the chain binds it.
RECURSIVE Nearest(_, _, _)
Nearest(st, id, name) ==
    IF name \in DOMAIN st[id].d THEN id
    ELSE IF PARENT \in DOMAIN st[id].d /\ IsRef(st[id].d[PARENT])
    THEN Nearest(st, st[id].d[PARENT].ref, name)
    ELSE 0

\* C8: a lookup gives the value bound in the nearest scope of the parent
\* chain that binds the name, and raises AttributeError exactly when no
\* scope of the chain binds it.
C8_NearestScope ==
    ret.op = "get" =>
        IF Nearest(store, ret.id, ret.name) = 0
        THEN ret.exc = "AttributeError"
        ELSE /\ ret.exc = ""
             /\ ret.val = store[Nearest(store, ret.id, ret.name)].d[ret.name]

\* No scope binds last, and the lookup of last gave udef and no exception.
C8_Witness ==
    /\ ret.op = "get"
    /\ ret.name = LAST
    /\ Nearest(store, ret.id, LAST) = 0
    /\ ret.exc = ""
    /\ ret.val = udef

\* The keyword name has no double underscore in it.
NoDunder(n) == \A i \in 1..(Len(n) - 1) : ~(n[i] = "_" /\ n[i + 1] = "_")

\* The keyword name starts with a double underscore and ends with another.
DunderName(n) ==
    /\ Len(n) >= 4
    /\ n[1] = "_" /\ n[2] = "_"
    /\ n[Len(n) - 1] = "_" /\ n[Len(n)] = "_"

\* An identifier other than self: self is stored under the self-marker.
PlainWord(n) == n # SELF /\ \A i \in 1..Len(n) : n[i] # "$"

\* set(name = AttrValue) stored the value under the key name itself and
\* touched nothing else.
StoredLiteral ==
    /\ ret.exc = ""
    /\ store = [AttrStore EXCEPT ![1].d = Put(@, ret.name, AttrValue)]

\* C9: set stores a name of one segment, and a name that starts and ends
\* with the double underscore, under the name itself; set(a__b = v) sets
\* attribute b of the object bound to a and adds no key; set(a__b___a = v)
\* sets attribute _a of attribute b of a.
C9_PathRule ==
    (ret.op = "set" /\ PlainWord(ret.name)) =>
        /\ NoDunder(ret.name) => StoredLiteral
        /\ DunderName(ret.name) => StoredLiteral
        /\ ret.name = <<"a", "_", "_", "b">>
               => /\ ret.exc = ""
                  /\ store = [AttrStore EXCEPT ![2].attrs = Put(@, NB, AttrValue)]
        /\ ret.name = <<"a", "_", "_", "b", "_", "_", "_", "a">>
               => /\ ret.exc = ""
                  /\ store = [AttrStore EXCEPT ![3].attrs = Put(@, <<"_", "a">>, AttrValue)]

\* set(___a__ = v): the name starts and ends with the double underscore,
\* and set took it for a path from the key _ and raised KeyError.
C9_Witness ==
    /\ ret.op = "set"
    /\ ret.name = <<"_", "_", "_", "a", "_", "_">>
    /\ ret.exc = "KeyError"
    /\ store = AttrStore

\* C10: the second end of a Class raises an exception.
C10_SecondEndFails ==
    (ret.op = "end" /\ store[ret.id].ends >= 2) => ret.exc # ""

\* A Class was ended twice without an exception: a second class value is on
\* the heap and the parent binds the name to it.
C10_Witness ==
    /\ ret.op = "end"
    /\ store[ret.id].ends = 2
    /\ ret.exc = ""
    /\ store[Len(store)].kind = "type"
    /\ store[Len(store) - 1].kind = "type"
    /\ store[ret.val.ref].d[CLS] = Ref(Len(store))

(***************************************************************************)
(* Properties of the unpack tail, of calculate and of the builder chain    *)
(***************************************************************************)
\* The call was made with a last positional argument of as many elements as
\* the called Function has unpack names.
UnpackFits ==
    /\ ret.val.args # <<>>
    /\ IsList(Last(ret.val.args))
    /\ Len(Last(ret.val.args).list) = Len(store[func].unpack.list)

\* C11: a call of a Function with an unpack tail of k names whose last
\* positional argument has k elements binds the i-th name to the i-th
\* element and checks the other arguments against the declared parameters;
\* a last argument of another length, or no positional argument at all,
\* ends the call with TypeError, the arity error.
C11_UnpackArity ==
    (Called /\ ~IsNone(store[func].unpack)) =>
        IF UnpackFits /\ Len(ret.val.args) - 1 + Len(ret.val.kw) = Len(store[func].args)
        THEN /\ outcome.by # "call"
             /\ (pc = "run" /\ trace = <<>>) =>
                    \A i \in 1..Len(store[func].unpack.list) :
                        /\ store[func].unpack.list[i] \in DOMAIN store[call.e].d
                        /\ store[call.e].d[store[func].unpack.list[i]]
                               = Last(ret.val.args).list[i]
        ELSE /\ pc = "done"
             /\ outcome.by = "call"
             /\ outcome.exc = "TypeError"

\* A Function with an unpack tail was called without a positional argument
\* and the call ended with ValueError.
C11_Witness ==
    /\ Called
    /\ ~IsNone(store[func].unpack)
    /\ ret.val.args = <<>>
    /\ pc = "done"
    /\ outcome.by = "call"
    /\ outcome.exc = "ValueError"

\* The expressions and values the program hands to calculate: what its set
\* calls bind, what its ret, if_ and elif_ calls are given, its loop sources.
Reducible ==
    {prog[i].expr : i \in 1..Len(prog)}
        \cup UNION { {prog[i].kw[j][2] : j \in 1..Len(prog[i].kw)} : i \in 1..Len(prog) }

\* calculate(x, e) with the call's Environment as it is now.
CalcNow(x) == calculate(store, x, Ref(call.e))

\* C12: calculate gives back a value that is not a FuncBuilder as it is;
\* what a calculate that ends without an exception gives is never a
\* FuncBuilder, and calculate of that value gives the same value again.
C12_CalculateIdempotent ==
    pc = "run" =>
        \A x \in Reducible :
            /\ ~IsFuncBuilder(x) => CalcNow(x) = Ok(x)
            /\ CalcNow(x).exc = ""
                   => /\ ~IsFuncBuilder(CalcNow(x).val)
                      /\ CalcNow(CalcNow(x).val) = CalcNow(x)

\* The closure binds a to the deferred expression b + 1: one do of a * y
\* gives a FuncBuilder, and calculate goes on to the value 3 * 16.
C12_Witness ==
    /\ prog = ScriptDeferred
    /\ pc = "run"
    /\ ret.val.args = <<IntV(10), IntV(16)>>
    /\ IsFuncBuilder(do(store, Times(Var(NA), Var(NY)), Ref(call.e)).val)
    /\ CalcNow(Times(Var(NA), Var(NY))) = Ok(IntV(48))

\* The builder calls that open a block: each makes one object.
Opens(step) == step.m \in {"Function", "def_", "if_", "for_"}

\* The object made by builder call j of program p: the objects are made in
\* the order of the opening calls, after the first Environment.
MadeBy(p, j) == 1 + Cardinality({i \in 1..j : Opens(p[i])})

\* The opening call that an end finds going back from call j, having passed
\* depth ends whose blocks are to be skipped.
RECURSIVE OpenerOf(_, _, _)
OpenerOf(p, j, depth) ==
    IF j = 0 THEN 0
    ELSE IF p[j].m = "end" THEN OpenerOf(p, j - 1, depth + 1)
    ELSE IF Opens(p[j])
    THEN IF depth = 0 THEN j ELSE OpenerOf(p, j - 1, depth - 1)
    ELSE OpenerOf(p, j - 1, depth)

\* The object that the chain of a well-nested program p stands on after k
\* builder calls, by the nesting of the blocks alone.
RECURSIVE OnChain(_, _)
OnChain(p, k) ==
    IF k = 0 THEN 1
    ELSE IF Opens(p[k]) THEN MadeBy(p, k)
    ELSE IF p[k].m = "end"
    THEN IF p[OpenerOf(p, k - 1, 0)].m = "Function"
         THEN MadeBy(p, OpenerOf(p, k - 1, 0))
         ELSE OnChain(p, OpenerOf(p, k - 1, 0) - 1)
    ELSE OnChain(p, k - 1)

\* The clause of the innermost open if block that is current after k builder
\* calls: 0 in its else clause, otherwise the number of its if and elif
\* calls made so far.
RECURSIVE OwnElifs(_, _, _)
OwnElifs(p, j, depth) ==
    IF j = 0 THEN 0
    ELSE IF p[j].m = "end" THEN OwnElifs(p, j - 1, depth + 1)
    ELSE IF Opens(p[j])
    THEN IF depth = 0 THEN 1 ELSE OwnElifs(p, j - 1, depth - 1)
    ELSE (IF depth = 0 /\ p[j].m = "elif_" THEN 1 ELSE 0) + OwnElifs(p, j - 1, depth)

RECURSIVE ClauseOf(_, _, _)
ClauseOf(p, j, depth) ==
    IF j = 0 THEN 1
    ELSE IF p[j].m = "end" THEN ClauseOf(p, j - 1, depth + 1)
    ELSE IF Opens(p[j])
    THEN IF depth = 0 THEN 1 ELSE ClauseOf(p, j - 1, depth - 1)
    ELSE IF depth = 0 /\ p[j].m = "else_" THEN 0
    ELSE IF depth = 0 /\ p[j].m = "elif_" THEN OwnElifs(p, j, 0)
    ELSE ClauseOf(p, j - 1, depth)

\* The sequence of object b that clause c names.
SeqOf(st, b, c) ==
    IF st[b].kind = "Condition"
    THEN IF c = 0 THEN st[b].code_else ELSE st[b].code_if[c]
    ELSE st[b].code

\* Every sequence of Code objects of object o.
SeqsOf(st, o) ==
    IF st[o].kind = "Condition" THEN <<st[o].code, st[o].code_if, st[o].code_else>>
    ELSE IF IsFunctionKind(st[o]) THEN <<st[o].code>>
    ELSE <<>>

\* The builder calls made so far.
Done == Len(prog) - Len(script)

\* The sequence s has grown into t by Code objects n + 1 .. m and nothing
\* else.
GrownBy(s, t, n, m) ==
    /\ Len(t) = Len(s) + (m - n)
    /\ SubSeq(t, 1, Len(s)) = s
    /\ \A i \in 1..(m - n) : t[Len(s) + i].id = n + i

\* What C13 says of a builder call that appends Code objects: they go to
\* the end of the current sequence of the object the chain stands on, and
\* every other sequence is as it was.
AppendsToCurrent(b, c) ==
    /\ GrownBy(SeqOf(store, b, c), SeqOf(store', b, c), ncode, ncode')
    /\ \A o \in 1..Len(store) : o # b => SeqsOf(store', o) = SeqsOf(store, o)
    /\ store[b].kind = "Condition" =>
           /\ Len(store'[b].code_if) = Len(store[b].code_if)
           /\ \A i \in 1..Len(store[b].code_if) :
                  i # c => store'[b].code_if[i] = store[b].code_if[i]
           /\ c # 0 => store'[b].code_else = store[b].code_else

\* C13: after every builder call of a well-nested program the chain stands
\* on the object the nesting says: an end gives back the builder that
\* opened the block it closes, the Environment for a Function made by def_,
\* the Function itself when nothing encloses it; and the Code objects of a
\* set, ret, if_ or for_ made after an end are appended to the current
\* sequence of the enclosing block, not to the block that was closed.
C13_EndReturnsOpener ==
    [][ /\ cur' = Ref(OnChain(prog, Len(prog) - Len(script')))
        /\ ncode' # ncode
               => AppendsToCurrent(OnChain(prog, Done), ClauseOf(prog, Done, 0))
      ]_vars

\* The loop opened in the elif clause has been ended and the set made after
\* its end stands behind the loop in that clause of the Condition; the chain
\* stands on the Condition.
C13_Witness ==
    /\ prog = ScriptElifNested
    /\ pc = "define"
    /\ Done = 8
    /\ cur = Ref(3)
    /\ store[3].kind = "Condition"
    /\ Len(store[3].code_if[2]) = 2
    /\ store[3].code_if[2][1].opcode = "loop"
    /\ store[3].code_if[2][2].opcode = "update"
    /\ store[4].code = <<store[4].code[1]>>

(***************************************************************************)
(* Properties of loops, of the stack and of the bindings of a call         *)
(***************************************************************************)
\* The call has ended past its last instruction, or at a ret that was not
\* drawn from a loop body.
RanThrough ==
    /\ pc = "done"
    /\ \/ outcome.by = "exhausted"
       \/ outcome.by = "ret" /\ Last(trace).it = 0

\* The number of times the loop variable was bound from LoopIter k.
Bindings(k) ==
    Cardinality({q \in 1..Len(trace) : trace[q].it = k /\ trace[q].id = 0})

\* C14: in a call that ran through, every activation of a Loop over a
\* source of n elements has bound the loop variable and run the body n
\* times, also when the same Loop is activated more than once.
C14_EveryActivationRuns ==
    RanThrough =>
        \A p \in 1..Len(trace) :
            (trace[p].opcode = "loop" /\ trace[p].made # 0)
                => Bindings(trace[p].made) = Len(trace[p].val.list)

\* The inner loop of two nested loops over [1, 2] was activated twice, and
\* the LoopIter of its first activation never gave an element.
C14_Witness ==
    /\ prog = ScriptNested
    /\ RanThrough
    /\ ret.val.args = << ListV(<<IntV(1), IntV(2)>>), IntV(16) >>
    /\ trace[4].opcode = "loop"
    /\ trace[6].opcode = "loop"
    /\ trace[4].obj = trace[6].obj
    /\ trace[4].made = 2
    /\ trace[4].val = ListV(<<IntV(1), IntV(2)>>)
    /\ Bindings(2) = 0
    /\ Bindings(trace[6].made) = 2

\* The Environment objects of the heap.
Environments == {i \in 1..Len(store) : store[i].kind = "Environment"}

\* The events that bound the loop variable from LoopIter k.
BindingsOf(k) == {q \in 1..Len(trace) : trace[q].it = k /\ trace[q].id = 0}

\* An update dispatched after event q names n.
Rebound(n, q) ==
    \E r \in (q + 1)..Len(trace) : trace[r].opcode = "update" /\ trace[r].name = n

\* The name a loop event binds.
LoopName(p) == store[trace[p].obj].data[1][1]

ArgOf(n) ==
    IF \E i \in 1..Len(ret.val.args) : i <= Len(store[func].args) /\ store[func].args[i] = n
    THEN ret.val.args[CHOOSE i \in 1..Len(ret.val.args) : store[func].args[i] = n]
    ELSE IF \E j \in 1..Len(ret.val.kw) : ret.val.kw[j][1] = n
    THEN ret.val.kw[CHOOSE j \in 1..Len(ret.val.kw) : ret.val.kw[j][1] = n][2]
    ELSE udef

\* An update of the program itself (not the binding of a loop) names n.
SetByProgram(n) ==
    \E r \in 1..Len(trace) :
        trace[r].opcode = "update" /\ trace[r].id # 0 /\ trace[r].name = n

ParamNames(f) ==
    {f.args[i] : i \in 1..Len(f.args)}
        \cup (IF IsNone(f.unpack) THEN {}
              ELSE {f.unpack.list[i] : i \in 1..Len(f.unpack.list)})

\* The step is a call of the Function: __call__ makes its Environment.
CallStep == script = <<>> /\ pc \in {"define", "done"} /\ Len(store') = Len(store) + 1

\* What a Function, Condition or Loop holds of the program: everything but
\* the environ attribute.
InstructionsOf(o) == [o EXCEPT !.environ = NoneV]

\* Name n can be read through Environment e.
Visible(st, e, n) == getattr(st, Ref(e), n).exc = ""

\* The names bound in the Environments of the calls made so far.
BoundByCalls(st) ==
    UNION {DOMAIN st[i].d \ {PARENT} : i \in CallEnvironments(st)}

\* The Environment a call makes is a new object whose parent is the closure.
FreshEnvironment ==
    /\ call'.e = Len(store) + 1
    /\ store'[call'.e].kind = "Environment"
    /\ store'[call'.e].d[PARENT] = store[func].environ

\* A name an earlier call bound is visible in the new call only if the new
\* call's arguments bind it or the closure has it.
EarlierCallsUnseen ==
    \A n \in BoundByCalls(store) :
        Visible(store', call'.e, n) =>
            \/ n \in DOMAIN store'[call'.e].d
            \/ Visible(store, 1, n) /\ IsRef(store[func].environ)

\* Once defined, the instruction lists stay as they are, and a step of a
\* call writes no Environment but the call's own.
CallFrame ==
    /\ \A i \in 1..Len(store) :
           IsFunctionKind(store[i]) => InstructionsOf(store'[i]) = InstructionsOf(store[i])
    /\ \A i \in 1..Len(store) :
           (store[i].kind = "Environment" /\ (pc # "run" \/ i # call.e))
               => store'[i] = store[i]

\* C16: every call runs in a new Environment whose parent is the Function's
\* closure and which binds nothing but the declared parameters at first;
\* what one call bound is not visible in a later call; and no step after
\* the definition changes an instruction list.
C16_FreshEnvironmentPerCall ==
    [][ script = <<>> =>
            /\ CallFrame
            /\ CallStep =>
                   /\ FreshEnvironment
                   /\ EarlierCallsUnseen
                   /\ DOMAIN store'[call'.e].d \ {PARENT} \subseteq ParamNames(store[func])
      ]_vars

\* The same without the clause on what the Environment binds at first.
FreshEnvironmentPerCall ==
    [][ script = <<>> => CallFrame /\ (CallStep => FreshEnvironment /\ EarlierCallsUnseen)
      ]_vars

\* A second call bar(y=16) of the Function with the one parameter x, after
\* a call that bound w and i: it passed the arity check and its Environment
\* binds y, which is no parameter, and not x; w and i are not visible.
C16_Witness ==
    /\ prog = ScriptFor
    /\ Cardinality(CallEnvironments(store)) = 2
    /\ pc = "run" /\ trace = <<>>
    /\ ret.val.args = <<>>
    /\ DOMAIN store[call.e].d = {PARENT, NY}
    /\ \E i \in CallEnvironments(store) : i # call.e /\ {NW, NI} \subseteq DOMAIN store[i].d
    /\ ~Visible(store, call.e, NW)
    /\ ~Visible(store, call.e, NI)

\* Event p is a Loop instruction dispatched from the body of another loop.
InnerLoop(p) == trace[p].opcode = "loop" /\ trace[p].it # 0 /\ trace[p].made # 0

\* The number of bindings from LoopIter k among the events before q.
BindingsBefore(k, q) == Cardinality({r \in BindingsOf(k) : r < q})

\* The events that activated the Loops in loop bodies.
InnerLoops == {p \in 1..Len(trace) : InnerLoop(p)}

\* C17: a Loop in the body of another Loop runs to its end where it stands:
\* whatever is dispatched after it from outside its own iterations (the
\* next binding of the outer loop, an instruction after the outer Loop)
\* comes after one binding for each element of its source; so in a call
\* that ran through, outer and inner source having m and n elements, the
\* inner loop bound its variable m*n times.
C17_NestedLoopsInline ==
    /\ \A p \in InnerLoops :
           \A q \in (p + 1)..Len(trace) :
               trace[q].it # trace[p].made
                   => BindingsBefore(trace[p].made, q) = Len(trace[p].val.list)
    /\ RanThrough =>
           \A o \in 1..Len(trace) :
               (trace[o].opcode = "loop" /\ trace[o].it = 0 /\ trace[o].made # 0
                   /\ \E i \in 1..Len(store[trace[o].obj].code) :
                          store[trace[o].obj].code[i].opcode = "loop")
               => Cardinality(UNION {BindingsOf(trace[p].made) :
                                        p \in {r \in InnerLoops : trace[r].it = trace[o].made}})
                    = Len(trace[o].val.list) * Len(trace[o].val.list)

\* Two nested loops over [1, 2]: the inner Loop was activated for each of
\* the two outer elements one after the other, each time followed by an
\* instruction from outside it before it had bound anything (the outer
\* loop's next binding, the push of ret(var.w)); the inner body ran 2 times
\* in all, not 4, and the call returned 0.
C17_Witness ==
    /\ prog = ScriptNested
    /\ pc = "done"
    /\ outcome.by = "ret"
    /\ outcome.val = IntV(0)
    /\ ret.val.args = << ListV(<<IntV(1), IntV(2)>>), IntV(16) >>
    /\ Cardinality(InnerLoops) = 2
    /\ \A p \in InnerLoops : \E q \in (p + 1)..Len(trace) :
           trace[q].it # trace[p].made /\ BindingsBefore(trace[p].made, q) = 0
    /\ Cardinality(UNION {BindingsOf(trace[p].made) : p \in InnerLoops}) = 2

\* The events dispatched between the push of ret at p and the ret itself,
\* the call having ended at that ret.
BetweenPushAndRet(p) == (p + 1)..(Len(trace) - 1)

\* C18: the ret a call ends at was dispatched right after the push that
\* ret() appended before it, the stack never holds more than one value, and
\* the value returned is the pushed expression reduced against the call's
\* Environment as it is when the call ends.
C18_NothingBetweenPushAndRet ==
    /\ Len(call.stack) <= 1
    /\ (pc = "done" /\ outcome.by = "ret" /\ outcome.kind = "return")
           => /\ Len(trace) >= 2
              /\ trace[Len(trace) - 1].opcode = "push"
              /\ trace[Len(trace) - 1].id = Last(trace).id - 1
              /\ calculate(store, trace[Len(trace) - 1].val, Ref(call.e))
                     = Ok(outcome.val)

\* Two nested loops over [1, 2]: four instructions (j=1, w=w+1, j=2, w=w+1)
\* were dispatched between the push of ret(var.w) and its ret; the stack
\* held the one value pushed, 0, which the call returned with w being 2.
C18_Witness ==
    /\ prog = ScriptNested
    /\ pc = "done"
    /\ outcome.by = "ret"
    /\ outcome.val = IntV(0)
    /\ \E p \in PushOfRet :
           /\ Cardinality(BetweenPushAndRet(p)) = 4
           /\ \A q \in BetweenPushAndRet(p) : trace[q].opcode = "update" /\ trace[q].it # 0
    /\ getattr(store, Ref(call.e), NW) = Ok(IntV(2))
    /\ call.stack = <<>>

\* The instruction the call dispatches next is an update.
UpdateNext ==
    /\ pc = "run"
    /\ CodeIter_next(call).kind = "code"
    /\ CodeIter_next(call).code.opcode = "update"

\* The bindings of the update dispatched next, as <<name, expression>>.
UpdateData == CodeIter_next(call).code.data

\* Every expression of the update dispatched next has a value in the
\* call's Environment as it is.
AllReduce ==
    \A i \in 1..Len(UpdateData) :
        calculate(store, UpdateData[i][2], Ref(call.e)).exc = ""

\* C19: an update binds each of its names to the value its expression has
\* in the call's Environment as it was before the update, whatever the
\* update itself binds; so set(x=var.y, y=var.x) exchanges x and y, and the
\* updates after it, reading what the ones before wrote (w=var.x, t=var.w,
\* ret(var.t)), make the call return the y it was given.
C19_UpdateReducesThenWrites ==
    [][ /\ (UpdateNext /\ AllReduce) =>
               \A i \in 1..Len(UpdateData) :
                   /\ UpdateData[i][1] \in DOMAIN store'[call.e].d
                   /\ Ok(store'[call.e].d[UpdateData[i][1]])
                          = calculate(store, UpdateData[i][2], Ref(call.e))
        /\ (prog = ScriptSwap /\ UpdateNext /\ Len(UpdateData) = 2) =>
               /\ store'[call.e].d[NX] = store[call.e].d[NY]
               /\ store'[call.e].d[NY] = store[call.e].d[NX]
        /\ (prog = ScriptSwap /\ pc' = "done" /\ outcome'.by = "ret") =>
               outcome'.val = ArgOf(NY)
      ]_vars

\* foo(x=[1, 2], y=16) after set(x=var.y, y=var.x): x is 16 and y is [1, 2];
\* and at its end, having returned 16 through w and t.
C19_Witness ==
    /\ prog = ScriptSwap
    /\ Called
    /\ pc = "done"
    /\ ret.val.args = << ListV(<<IntV(1), IntV(2)>>), IntV(16) >>
    /\ ret.val.kw = <<>>
    /\ store[call.e].d[NX] = IntV(16)
    /\ store[call.e].d[NY] = ListV(<<IntV(1), IntV(2)>>)
    /\ outcome = [kind |-> "return", val |-> IntV(16), exc |-> "", by |-> "ret"]
    /\ store[call.e].d[NW] = IntV(16)
    /\ store[call.e].d[NT] = IntV(16)

\* The call got past the unpack tail and the arity check.
PassedArity == Called /\ outcome.by # "call"

\* C20: once a call has passed the arity check, every declared parameter
\* is bound in the call's own Environment, from before the first
\* instruction on, whatever the mix of positional and keyword arguments;
\* so no read of a parameter is answered by the closure or fails.
C20_ParametersBound ==
    PassedArity =>
        \A n \in ParamNames(store[func]) : n \in DOMAIN store[call.e].d

\* foo(10, y=0) of the Function with parameters (y, x) defined where x is
\* 1: the count of arguments is right, y is bound twice and x not at all,
\* and ret(var.x) returned the closure's 1.
C20_Witness ==
    /\ prog = ScriptKw
    /\ PassedArity
    /\ ret.val.args = <<IntV(10)>>
    /\ ret.val.kw = << <<NY, IntV(0)>> >>
    /\ DOMAIN store[call.e].d = {PARENT, NY}
    /\ store[call.e].d[NY] = IntV(0)
    /\ pc = "done"
    /\ outcome = [kind |-> "return", val |-> IntV(1), exc |-> "", by |-> "ret"]

\* The number of positional arguments that stand for declared parameters:
\* all of them, but for the last when the Function has an unpack tail.
NPositional ==
    IF IsNone(store[func].unpack) THEN Len(ret.val.args) ELSE Len(ret.val.args) - 1

\* A keyword of the call names n.
KeywordNames(n) == \E j \in 1..Len(ret.val.kw) : ret.val.kw[j][1] = n

\* The call is about to run its first instruction.
AtFirstInstruction == PassedArity /\ pc = "run" /\ trace = <<>>

\* C21: when a call that passed the arity check starts, the i-th declared
\* parameter is bound to the i-th positional argument as the caller gave
\* it, whatever the value, the string 'self' included (parameters that a
\* keyword of the call names as well are left aside).
C21_PositionalValuesAsPassed ==
    AtFirstInstruction =>
        \A i \in 1..NPositional :
            ~KeywordNames(store[func].args[i])
                => /\ store[func].args[i] \in DOMAIN store[call.e].d
                   /\ store[call.e].d[store[func].args[i]] = ret.val.args[i]

\* foo('self', 16) about to run: x is bound to the string '$', not to the
\* string 'self' the caller gave, and y to 16.
C21_Witness ==
    /\ prog = ScriptShadow
    /\ AtFirstInstruction
    /\ ret.val.args = << StrV(SELF), IntV(16) >>
    /\ ret.val.kw = <<>>
    /\ store[call.e].d[NX] = StrV(DOLLAR)
    /\ store[call.e].d[NY] = IntV(16)

\* C22: after set(k = v) of a plain name on an Environment, the lookup of k
\* on that Environment gives v, also for the names d, last, set, print,
\* def_ and class_.
C22_SetGetRoundTrip ==
    (ret.op = "set" /\ ret.exc = "")
        => getattr(store, Ref(ret.id), ret.name) = Ok(ret.val)

\* set(print = v) has bound print to v in the Environment's dictionary, and
\* the lookup of print on the Environment gives its method print.
C22_Witness ==
    /\ ret.op = "set"
    /\ ret.exc = ""
    /\ ret.name = <<"p", "r", "i", "n", "t">>
    /\ store[ret.id].kind = "Environment"
    /\ store[ret.id].d[ret.name] = ret.val
    /\ getattr(store, Ref(ret.id), ret.name) = Ok([method |-> ret.name, self |-> ret.id])

\* The LoopIter the generator resumes in: the one its for statement is
\* iterating, or the one in self.loop when it is at the top of `while
\* True`; 0 when there is none.
Resumed == IF call.active # 0 THEN call.active ELSE call.loop

\* The next thing the generator does is ask LoopIter k for an element that
\* its source answers with an exception.
SourceFails(k) ==
    /\ pc = "run"
    /\ k # 0
    /\ k = Resumed
    /\ call.active = 0 \/ call.chain = <<>>
    /\ call.iters[k].iterator = <<>>
    /\ call.iters[k].raises # ""

\* C23: when the source of a running Loop raises an exception instead of
\* giving its next element, the call ends there with that exception,
\* whatever its kind; no further instruction is dispatched and nothing is
\* returned.
C23_LoopErrorSurfaces ==
    [][ \A k \in 1..Len(call.iters) :
            SourceFails(k) =>
                /\ pc' = "done"
                /\ trace' = trace
                /\ outcome'.kind = "raise"
                /\ outcome'.exc = call.iters[k].raises
      ]_vars

\* bar(x) with x an iterable that gives 1 and then raises TypeError: the
\* loop ran once, the call went on to ret(var.w + 12) and returned 13.
C23_Witness ==
    /\ prog = ScriptFor
    /\ Called
    /\ ret.val.args = << FailV(<<IntV(1)>>, "TypeError") >>
    /\ ret.val.kw = <<>>
    /\ pc = "done"
    /\ outcome = [kind |-> "return", val |-> IntV(13), exc |-> "", by |-> "ret"]
    /\ Bindings(1) = 1
    /\ call.loop = 0
====
